---- MODULE Spec2Model ----
(***************************************************************************)
(* Model of the onejs-react host adapter (src/src/host-config.ts): the     *)
(* instance record, the style property engine, the class diff, the event   *)
(* handler registry and the structural operations, run against the native  *)
(* element behaviour of src/src/__tests__/mocks.ts.                        *)
(*                                                                         *)
(* JavaScript values are tagged records; strings are sequences of          *)
(* one-character strings so that trimming, splitting and matching are      *)
(* computed character by character.                                        *)
(***************************************************************************)
EXTENDS Integers, Sequences, FiniteSets, Bags, TLC

(***************************************************************************)
(* Bounds                                                                  *)
(***************************************************************************)
\* the props objects of PROPS_TABLE the reconciler draws from, counted from
\* the first
NumProps == 6
\* instances createInstance may produce in one behaviour of SpecTree
TreeInst == 3
\* the longest className string handed to updateClassNames in SpecClass
MaxClassLen == 3
\* instances createInstance may produce in one behaviour of SpecCreate
MaxCreated == 2
\* roots reconciler.createContainer may produce in one behaviour of SpecRender
MaxRoots == 3
\* the longest string over LENGTH_ALPHABET handed to parseLength in SpecLength
MaxLengthLen == 4
\* the most characters of HEX_ALPHABET after the '#' of a string handed to
\* parseColor in SpecColor
MaxHexLen == 6
\* the most characters of {0, f} after the '#' of such a string
MaxLongHexLen == 9
\* the most entries of a style object handed to applyStyle in SpecStyle
MaxStyleLen == 2

(***************************************************************************)
(* JavaScript values                                                       *)
(***************************************************************************)
Undefined == [t |-> "undefined"]
Null == [t |-> "null"]
RECURSIVE GCD(_, _)
GCD(a, b) == IF b = 0 THEN a ELSE GCD(b, a % b)
Abs(x) == IF x < 0 THEN -x ELSE x
\* a finite number n/d in lowest terms, d > 0
Rat(n, d) ==
    LET g == GCD(Abs(n), d)
    IN  [t |-> "number", n |-> n \div g, d |-> d \div g]
Num(n) == Rat(n, 1)
NaN == [t |-> "number", nan |-> TRUE]
IsNaN(v) == "nan" \in DOMAIN v
Str(s) == [t |-> "string", s |-> s]
\* a callback; identity is the only thing the adapter looks at
Fn(id) == [t |-> "function", id |-> id]
\* a style object; ref is its identity, the content is STYLE_TABLE[ref]
Obj(ref) == [t |-> "object", ref |-> ref]

Truthy(v) ==
    /\ v.t # "undefined"
    /\ v.t # "null"
    /\ (v.t = "string" => v.s # <<>>)
    /\ (v.t = "number" => ~IsNaN(v) /\ v.n # 0)
    /\ (v.t = "boolean" => v.b)

\* native value objects built by the style parser
Length(v, unit) == [t |-> "Length", value |-> v, unit |-> unit]
StyleKeyword(k) == [t |-> "StyleKeyword", k |-> k]
Color(r, g, b, a) == [t |-> "Color", r |-> r, g |-> g, b |-> b, a |-> a]

\* an exception leaving a function
Throw(msg) == [t |-> "throw", msg |-> msg]
IsThrow(v) == v.t = "throw"

Range(f) == {f[x] : x \in DOMAIN f}

(***************************************************************************)
(* Characters                                                              *)
(***************************************************************************)
UPPER == <<"A","B","C","D","E","F","G","H","I","J","K","L","M",
           "N","O","P","Q","R","S","T","U","V","W","X","Y","Z">>
LOWER == <<"a","b","c","d","e","f","g","h","i","j","k","l","m",
           "n","o","p","q","r","s","t","u","v","w","x","y","z">>
DIGITS == <<"0","1","2","3","4","5","6","7","8","9">>
WHITESPACE == {" ", "\t", "\n"}

IsDigit(c) == c \in Range(DIGITS)
DigitVal(c) == (CHOOSE i \in DOMAIN DIGITS : DIGITS[i] = c) - 1

toLowerCaseChar(c) ==
    IF c \in Range(UPPER) THEN LOWER[CHOOSE i \in DOMAIN UPPER : UPPER[i] = c] ELSE c
toLowerCase(s) == [i \in DOMAIN s |-> toLowerCaseChar(s[i])]

RECURSIVE trimStart(_)
trimStart(s) ==
    IF s # <<>> /\ Head(s) \in WHITESPACE THEN trimStart(Tail(s)) ELSE s
RECURSIVE trimEnd(_)
trimEnd(s) ==
    IF s # <<>> /\ s[Len(s)] \in WHITESPACE THEN trimEnd(SubSeq(s, 1, Len(s) - 1)) ELSE s
trim(s) == trimEnd(trimStart(s))

endsWith(s, suf) ==
    /\ Len(s) >= Len(suf)
    /\ SubSeq(s, Len(s) - Len(suf) + 1, Len(s)) = suf


(***************************************************************************)
(* Numbers                                                                 *)
(***************************************************************************)
RECURSIVE Pow10(_)
Pow10(k) == IF k = 0 THEN 1 ELSE 10 * Pow10(k - 1)

\* a <= b for finite numbers
RatLeq(a, b) == a.n * b.d <= b.n * a.d
RatDiv(a, k) == Rat(a.n, a.d * k)

\* Math.min(1, Math.max(0, x)): NaN stays NaN
Clamp01(x) ==
    IF IsNaN(x) THEN NaN
    ELSE IF RatLeq(x, Num(0)) THEN Num(0)
    ELSE IF RatLeq(Num(1), x) THEN Num(1)
    ELSE x

\* end of the longest run of characters of set cs that starts at s[i]
RECURSIVE runEnd(_, _, _)
runEnd(s, i, cs) ==
    IF i <= Len(s) /\ s[i] \in cs THEN runEnd(s, i + 1, cs) ELSE i

RECURSIVE digitsValue(_)
digitsValue(ds) ==
    IF ds = <<>> THEN 0
    ELSE 10 * digitsValue(SubSeq(ds, 1, Len(ds) - 1)) + DigitVal(ds[Len(ds)])

\* parseFloat on a string made of an optional minus sign, digits and dots:
\* the longest prefix  -? digits* (. digits*)?  that holds a digit, else NaN
parseFloat(s) ==
    LET neg == s # <<>> /\ s[1] = "-"
        a == IF neg THEN 2 ELSE 1
        b == runEnd(s, a, Range(DIGITS))
        hasDot == b <= Len(s) /\ s[b] = "."
        c == IF hasDot THEN runEnd(s, b + 1, Range(DIGITS)) ELSE b
        int == SubSeq(s, a, b - 1)
        frac == IF hasDot THEN SubSeq(s, b + 1, c - 1) ELSE <<>>
        mag == Rat(digitsValue(int \o frac), Pow10(Len(frac)))
    IN  IF int = <<>> /\ frac = <<>> THEN NaN
        ELSE IF neg THEN Rat(-mag.n, mag.d) ELSE mag

\* parseInt(s, 10) on a string of digits
parseInt10(s) == Num(digitsValue(s))

(***************************************************************************)
(* style-parser.ts                                                         *)
(***************************************************************************)

NAMED_COLORS == <<
    <<<<"t","r","a","n","s","p","a","r","e","n","t">>,
        <<Num(0), Num(0), Num(0), Num(0)>>>>,
    <<<<"b","l","a","c","k">>,
        <<Num(0), Num(0), Num(0), Num(1)>>>>,
    <<<<"w","h","i","t","e">>,
        <<Num(1), Num(1), Num(1), Num(1)>>>>,
    <<<<"r","e","d">>,
        <<Num(1), Num(0), Num(0), Num(1)>>>>,
    <<<<"g","r","e","e","n">>,
        <<Num(0), Rat(502, 1000), Num(0), Num(1)>>>>,
    <<<<"b","l","u","e">>,
        <<Num(0), Num(0), Num(1), Num(1)>>>>,
    <<<<"y","e","l","l","o","w">>,
        <<Num(1), Num(1), Num(0), Num(1)>>>>,
    <<<<"c","y","a","n">>,
        <<Num(0), Num(1), Num(1), Num(1)>>>>,
    <<<<"m","a","g","e","n","t","a">>,
        <<Num(1), Num(0), Num(1), Num(1)>>>>,
    <<<<"o","r","a","n","g","e">>,
        <<Num(1), Rat(647, 1000), Num(0), Num(1)>>>>,
    <<<<"p","u","r","p","l","e">>,
        <<Rat(502, 1000), Num(0), Rat(502, 1000), Num(1)>>>>,
    <<<<"p","i","n","k">>,
        <<Num(1), Rat(753, 1000), Rat(796, 1000), Num(1)>>>>,
    <<<<"b","r","o","w","n">>,
        <<Rat(647, 1000), Rat(165, 1000), Rat(165, 1000), Num(1)>>>>,
    <<<<"g","r","a","y">>,
        <<Rat(502, 1000), Rat(502, 1000), Rat(502, 1000), Num(1)>>>>,
    <<<<"g","r","e","y">>,
        <<Rat(502, 1000), Rat(502, 1000), Rat(502, 1000), Num(1)>>>>,
    <<<<"s","i","l","v","e","r">>,
        <<Rat(753, 1000), Rat(753, 1000), Rat(753, 1000), Num(1)>>>>,
    <<<<"g","o","l","d">>,
        <<Num(1), Rat(843, 1000), Num(0), Num(1)>>>>,
    <<<<"n","a","v","y">>,
        <<Num(0), Num(0), Rat(502, 1000), Num(1)>>>>,
    <<<<"t","e","a","l">>,
        <<Num(0), Rat(502, 1000), Rat(502, 1000), Num(1)>>>>,
    <<<<"o","l","i","v","e">>,
        <<Rat(502, 1000), Rat(502, 1000), Num(0), Num(1)>>>>,
    <<<<"m","a","r","o","o","n">>,
        <<Rat(502, 1000), Num(0), Num(0), Num(1)>>>>,
    <<<<"a","q","u","a">>,
        <<Num(0), Num(1), Num(1), Num(1)>>>>,
    <<<<"l","i","m","e">>,
        <<Num(0), Num(1), Num(0), Num(1)>>>>,
    <<<<"f","u","c","h","s","i","a">>,
        <<Num(1), Num(0), Num(1), Num(1)>>>>
>>

LENGTH_PROPERTIES == {
    "width", "height", "minWidth", "minHeight", "maxWidth", "maxHeight",
    "top", "right", "bottom", "left", "margin", "marginTop", "marginRight",
    "marginBottom", "marginLeft", "padding", "paddingTop", "paddingRight",
    "paddingBottom", "paddingLeft", "flexBasis", "borderWidth",
    "borderTopWidth", "borderRightWidth", "borderBottomWidth",
    "borderLeftWidth", "borderRadius", "borderTopLeftRadius",
    "borderTopRightRadius", "borderBottomLeftRadius",
    "borderBottomRightRadius", "fontSize"
}
COLOR_PROPERTIES == {
    "color", "backgroundColor", "borderColor", "borderTopColor",
    "borderRightColor", "borderBottomColor", "borderLeftColor"
}
NUMBER_PROPERTIES == {
    "flexGrow", "flexShrink", "opacity"
}
ENUM_PROPERTIES == {
    "flexDirection", "flexWrap", "alignItems", "alignSelf", "alignContent",
    "justifyContent", "position", "overflow", "display", "visibility",
    "whiteSpace", "unityTextAlign", "fontStyle"
}

\* property names every object literal inherits from Object.prototype; a
\* lookup table[key] on an object literal finds them when the table has no
\* own entry for the key
OBJECT_PROTOTYPE_KEYS == {
    <<"c","o","n","s","t","r","u","c","t","o","r">>,
    <<"_","_","p","r","o","t","o","_","_">>,
    <<"t","o","S","t","r","i","n","g">>,
    <<"v","a","l","u","e","O","f">>,
    <<"h","a","s","O","w","n","P","r","o","p","e","r","t","y">>,
    <<"i","s","P","r","o","t","o","t","y","p","e","O","f">>,
    <<"t","o","L","o","c","a","l","e","S","t","r","i","n","g">>,
    <<"p","r","o","p","e","r","t","y","I","s","E","n","u","m","e","r","a","b","l","e">>
}

KW_AUTO == <<"a","u","t","o">>
KW_NONE == <<"n","o","n","e">>
KW_INITIAL == <<"i","n","i","t","i","a","l">>

\* trimmed.match(/^(-?[\d.]+)(px|%)?$/): the number part, or <<>> if no match
lengthMatch(trimmed) ==
    LET unit == IF endsWith(trimmed, <<"p","x">>) THEN "px"
                ELSE IF endsWith(trimmed, <<"%">>) THEN "%"
                ELSE ""
        ulen == IF unit = "px" THEN 2 ELSE IF unit = "%" THEN 1 ELSE 0
        num == SubSeq(trimmed, 1, Len(trimmed) - ulen)
        a == IF num # <<>> /\ num[1] = "-" THEN 2 ELSE 1
        ok == /\ a <= Len(num)
              /\ runEnd(num, a, Range(DIGITS) \cup {"."}) = Len(num) + 1
    IN  [ok |-> ok, num |-> num, unit |-> unit]

\* parseLength with the unit suffix ignored
lengthOfMatchPixelOnly(match, num) ==
    IF match.ok
    THEN IF IsNaN(num) THEN Null ELSE Length(num, "Pixel")
    ELSE Null

\* parseLength after the regular expression has been matched
lengthOfMatch(match, num) ==
    IF match.ok
    THEN IF IsNaN(num) THEN Null
         ELSE Length(num, IF match.unit = "%" THEN "Percent" ELSE "Pixel")
    ELSE Null

\* parseLength on the trimmed, lower-cased string
lengthOfTrimmed(trimmed, match) ==
    IF trimmed = KW_AUTO THEN StyleKeyword("Auto")
    ELSE IF trimmed = KW_NONE THEN StyleKeyword("None")
    ELSE IF trimmed = KW_INITIAL THEN StyleKeyword("Initial")
    ELSE lengthOfMatch(match, parseFloat(match.num))

\* parseLength without the toLowerCase() of line 102
parseLengthCaseSensitive(value) ==
    IF value.t = "number" THEN Length(value, "Pixel")
    ELSE IF value.t # "string" THEN Null
    ELSE lengthOfTrimmed(trim(value.s), lengthMatch(trim(value.s)))

parseLength(value) ==
    IF value.t = "number" THEN Length(value, "Pixel")
    ELSE IF value.t # "string" THEN Null
    ELSE lengthOfTrimmed(toLowerCase(trim(value.s)),
                         lengthMatch(toLowerCase(trim(value.s))))


HEXDIGITS == <<"0","1","2","3","4","5","6","7","8","9","a","b","c","d","e","f">>
HexVal(c) == (CHOOSE i \in DOMAIN HEXDIGITS : HEXDIGITS[i] = c) - 1

RECURSIVE hexValue(_)
hexValue(ds) ==
    IF ds = <<>> THEN 0
    ELSE 16 * hexValue(SubSeq(ds, 1, Len(ds) - 1)) + HexVal(ds[Len(ds)])

\* parseInt(s, 16): leading white space, a sign and a 0x prefix are skipped,
\* then the longest run of hexadecimal digits is read; no digit gives NaN
parseInt16(s) ==
    LET s1 == trimStart(s)
        neg == s1 # <<>> /\ s1[1] = "-"
        signed == s1 # <<>> /\ s1[1] \in {"-", "+"}
        s2 == IF signed THEN Tail(s1) ELSE s1
        s3 == IF Len(s2) >= 2 /\ SubSeq(s2, 1, 2) = <<"0","x">>
              THEN SubSeq(s2, 3, Len(s2)) ELSE s2
        e == runEnd(s3, 1, Range(HEXDIGITS))
        v == hexValue(SubSeq(s3, 1, e - 1))
    IN  IF e = 1 THEN NaN ELSE Num(IF neg THEN -v ELSE v)

\* v / 255, NaN when v is NaN
over255(v) == IF IsNaN(v) THEN NaN ELSE RatDiv(v, 255)

\* parseHexComponent without the duplication of a single digit
parseHexComponentSingle(hex) == over255(parseInt16(hex))

parseHexComponent(hex) ==
    over255(parseInt16(IF Len(hex) = 1 THEN hex \o hex ELSE hex))

\* a regular expression matched left to right: ok, the next position and the
\* captured groups
mStart == [ok |-> TRUE, i |-> 1, caps |-> <<>>]
mFail == [ok |-> FALSE, i |-> 0, caps |-> <<>>]
mLit(st, s, lit) ==
    IF st.ok /\ st.i + Len(lit) - 1 <= Len(s)
             /\ SubSeq(s, st.i, st.i + Len(lit) - 1) = lit
    THEN [st EXCEPT !.i = st.i + Len(lit)] ELSE mFail
mOpt(st, s, lit) ==
    IF st.ok /\ mLit(st, s, lit).ok THEN mLit(st, s, lit) ELSE st
mWs(st, s) ==
    IF st.ok THEN [st EXCEPT !.i = runEnd(s, st.i, WHITESPACE)] ELSE mFail
mCap(st, s, cs) ==
    LET e == IF st.ok THEN runEnd(s, st.i, cs) ELSE 0
    IN  IF st.ok /\ e > st.i
        THEN [st EXCEPT !.i = e, !.caps = Append(st.caps, SubSeq(s, st.i, e - 1))]
        ELSE mFail
mEnd(st, s) == st.ok /\ st.i = Len(s) + 1

\* the shared shape of the two rgb() expressions: three channels of
\* characters cs, each followed by suffix suf, and an optional alpha
rgbShape(s, cs, suf) ==
    LET a0 == mOpt(mLit(mStart, s, <<"r","g","b">>), s, <<"a">>)
        a1 == mWs(mLit(mWs(a0, s), s, <<"(">>), s)
        c1 == mWs(mLit(mCap(a1, s, cs), s, suf), s)
        c2 == mWs(mLit(mCap(mWs(mLit(c1, s, <<",">>), s), s, cs), s, suf), s)
        c3 == mWs(mLit(mCap(mWs(mLit(c2, s, <<",">>), s), s, cs), s, suf), s)
        hasA == c3.ok /\ mLit(c3, s, <<",">>).ok
        c4 == IF hasA
              THEN mCap(mWs(mLit(c3, s, <<",">>), s), s, Range(DIGITS) \cup {"."})
              ELSE c3
        z == mLit(mWs(c4, s), s, <<")">>)
    IN  [ok |-> mEnd(z, s), caps |-> z.caps, alpha |-> hasA]

rgbMatch(s) == rgbShape(s, Range(DIGITS), <<>>)
rgbPercentMatch(s) == rgbShape(s, Range(DIGITS) \cup {"."}, <<"%">>)

\* table[name] on an object literal: an own entry, a key inherited from
\* Object.prototype, or undefined
lookup(table, name, hits) ==
    IF hits # {}
    THEN [kind |-> "own", rgba |-> table[CHOOSE i \in hits : TRUE][2]]
    ELSE IF name \in OBJECT_PROTOTYPE_KEYS THEN [kind |-> "inherited"]
    ELSE [kind |-> "undefined"]

entriesNamed(table, name) == {i \in DOMAIN table : table[i][1] = name}

namedColor(name) == lookup(NAMED_COLORS, name, entriesNamed(NAMED_COLORS, name))

\* the digits of each channel: one digit each for #rgb and #rgba, two each
\* for #rrggbb and #rrggbbaa
hexParts(hex) ==
    IF Len(hex) \in {3, 4} THEN [k \in 1 .. Len(hex) |-> <<hex[k]>>]
    ELSE [k \in 1 .. (Len(hex) \div 2) |-> SubSeq(hex, 2 * k - 1, 2 * k)]

hexColor(parts) ==
    Color(parseHexComponent(parts[1]), parseHexComponent(parts[2]),
          parseHexComponent(parts[3]),
          IF Len(parts) = 4 THEN parseHexComponent(parts[4]) ELSE Num(1))

parseHexColor(hex) ==
    IF Len(hex) \in {3, 4, 6, 8} THEN hexColor(hexParts(hex)) ELSE Null

\* the channel of a number that may be NaN, divided by k and clamped
channel(v, k) == IF IsNaN(v) THEN NaN ELSE Clamp01(RatDiv(v, k))

\* the rgb(r, g, b[, a]) branch
rgbColor(m1) ==
    Color(channel(parseInt10(m1.caps[1]), 255),
          channel(parseInt10(m1.caps[2]), 255),
          channel(parseInt10(m1.caps[3]), 255),
          IF m1.alpha THEN channel(parseFloat(m1.caps[4]), 1) ELSE Num(1))

\* the rgb(r%, g%, b%[, a]) branch
rgbPercentColor(m2) ==
    Color(channel(parseFloat(m2.caps[1]), 100),
          channel(parseFloat(m2.caps[2]), 100),
          channel(parseFloat(m2.caps[3]), 100),
          IF m2.alpha THEN channel(parseFloat(m2.caps[4]), 1) ELSE Num(1))

\* parseColor past the named colors
unnamedColor(trimmed, m1, m2) ==
    IF trimmed # <<>> /\ trimmed[1] = "#" THEN parseHexColor(Tail(trimmed))
    ELSE IF m1.ok THEN rgbColor(m1)
    ELSE IF m2.ok THEN rgbPercentColor(m2)
    ELSE Null

\* parseColor on the trimmed, lower-cased string
colorOfTrimmed(trimmed, named) ==
    IF named.kind = "inherited"
    THEN Throw("TypeError: NAMED_COLORS[trimmed] is not iterable")
    ELSE IF named.kind = "own"
    THEN Color(named.rgba[1], named.rgba[2], named.rgba[3], named.rgba[4])
    ELSE unnamedColor(trimmed, rgbMatch(trimmed), rgbPercentMatch(trimmed))

parseColor(value) ==
    IF value.t # "string" THEN Null
    ELSE colorOfTrimmed(toLowerCase(trim(value.s)),
                        namedColor(toLowerCase(trim(value.s))))

\* parseStyleValue once the length and the color parse are at hand
styleValue(key, value, len, col) ==
    IF value.t \in {"undefined", "null"} THEN value
    ELSE IF key \in LENGTH_PROPERTIES /\ value.t = "number" THEN len
    ELSE IF key \in LENGTH_PROPERTIES /\ value.t = "string" /\ len # Null THEN len
    ELSE IF key \in COLOR_PROPERTIES /\ value.t = "string" /\ col # Null THEN col
    ELSE value

parseStyleValue(key, value) ==
    styleValue(key, value, parseLength(value), parseColor(value))

(***************************************************************************)
(* host-config.ts: tables                                                  *)
(***************************************************************************)
Bool(b) == [t |-> "boolean", b |-> b]

\* obj[key] on a JavaScript object or Map: undefined when the key is absent
Get(f, k) == IF k \in DOMAIN f THEN f[k] ELSE Undefined
\* obj[key] = v
Put(f, k, v) == [x \in DOMAIN f \cup {k} |-> IF x = k THEN v ELSE f[x]]
\* map.delete(key)
Del(f, k) == [x \in DOMAIN f \ {k} |-> f[x]]
\* set.add(x) on an insertion-ordered Set
SetAdd(s, x) == IF x \in Range(s) THEN s ELSE Append(s, x)

\* the native class behind each element type, and the value the native
\* element starts with
TYPE_MAP ==
    ("ojs-view" :> [cls |-> "VisualElement", value |-> Undefined]) @@
    ("ojs-label" :> [cls |-> "Label", value |-> Undefined]) @@
    ("ojs-button" :> [cls |-> "Button", value |-> Undefined]) @@
    ("ojs-textfield" :> [cls |-> "TextField", value |-> Str(<<>>)]) @@
    ("ojs-toggle" :> [cls |-> "Toggle", value |-> Bool(FALSE)]) @@
    ("ojs-slider" :> [cls |-> "Slider", value |-> Num(0)]) @@
    ("ojs-scrollview" :> [cls |-> "ScrollView", value |-> Undefined]) @@
    ("ojs-image" :> [cls |-> "Image", value |-> Undefined]) @@
    ("ojs-listview" :> [cls |-> "ListView", value |-> Undefined])

EVENT_PROPS == <<
    <<"onClick", "click">>,
    <<"onPointerDown", "pointerdown">>,
    <<"onPointerUp", "pointerup">>,
    <<"onPointerMove", "pointermove">>,
    <<"onPointerEnter", "pointerenter">>,
    <<"onPointerLeave", "pointerleave">>,
    <<"onFocus", "focus">>,
    <<"onBlur", "blur">>,
    <<"onKeyDown", "keydown">>,
    <<"onKeyUp", "keyup">>,
    <<"onChange", "change">>
>>

STYLE_SHORTHANDS == [
    padding |-> <<"paddingTop", "paddingRight", "paddingBottom", "paddingLeft">>,
    margin |-> <<"marginTop", "marginRight", "marginBottom", "marginLeft">>,
    borderWidth |-> <<"borderTopWidth", "borderRightWidth",
                      "borderBottomWidth", "borderLeftWidth">>,
    borderColor |-> <<"borderTopColor", "borderRightColor",
                      "borderBottomColor", "borderLeftColor">>,
    borderRadius |-> <<"borderTopLeftRadius", "borderTopRightRadius",
                       "borderBottomRightRadius", "borderBottomLeftRadius">>
]

CLASS_ESCAPE_MAP == <<
    <<":", <<"_","c","_">> >>,
    <<"/", <<"_","s","_">> >>,
    <<".", <<"_","d","_">> >>,
    <<"[", <<"_","l","b","_">> >>,
    <<"]", <<"_","r","b","_">> >>,
    <<"(", <<"_","l","p","_">> >>,
    <<")", <<"_","r","p","_">> >>,
    <<"#", <<"_","n","_">> >>,
    <<"%", <<"_","p","_">> >>,
    <<",", <<"_","c","m","_">> >>,
    <<"&", <<"_","a","m","p","_">> >>,
    <<">", <<"_","g","t","_">> >>,
    <<"<", <<"_","l","t","_">> >>,
    <<"*", <<"_","a","s","t","_">> >>,
    <<"'", <<"_","s","q","_">> >>
>>

\* names an object literal inherits, as property-name strings
OBJECT_PROTOTYPE_NAMES == {
    "constructor", "__proto__", "toString", "valueOf", "hasOwnProperty",
    "isPrototypeOf", "toLocaleString", "propertyIsEnumerable"
}

(***************************************************************************)
(* host-config.ts: class names                                             *)
(***************************************************************************)
\* name.split(ch).join(rep)
RECURSIVE replaceAll(_, _, _)
replaceAll(name, ch, rep) ==
    IF name = <<>> THEN <<>>
    ELSE (IF Head(name) = ch THEN rep ELSE <<Head(name)>>)
         \o replaceAll(Tail(name), ch, rep)

RECURSIVE escapeFrom(_, _)
escapeFrom(name, k) ==
    IF k > Len(CLASS_ESCAPE_MAP) THEN name
    ELSE escapeFrom(replaceAll(name, CLASS_ESCAPE_MAP[k][1], CLASS_ESCAPE_MAP[k][2]),
                    k + 1)
escapeClassName(name) == escapeFrom(name, 1)

\* className.split(/\s+/).filter(Boolean)
RECURSIVE splitTokens(_)
splitTokens(s) ==
    LET a == runEnd(s, 1, WHITESPACE)
        rest == SubSeq(s, a, Len(s))
        nonWs == {rest[i] : i \in DOMAIN rest} \ WHITESPACE
        b == runEnd(rest, 1, nonWs)
    IN  IF rest = <<>> THEN <<>>
        ELSE <<SubSeq(rest, 1, b - 1)>> \o splitTokens(SubSeq(rest, b, Len(rest)))

RECURSIVE toOrderedSet(_)
toOrderedSet(q) ==
    IF q = <<>> THEN <<>>
    ELSE SetAdd(toOrderedSet(SubSeq(q, 1, Len(q) - 1)), q[Len(q)])

\* the escaped class names of a className prop, as an insertion-ordered Set
parseClassNames(className) ==
    IF ~Truthy(className) THEN <<>>
    ELSE LET toks == splitTokens(className.s)
         IN  toOrderedSet([i \in DOMAIN toks |-> escapeClassName(toks[i])])


(***************************************************************************)
(* Inputs: the style objects, callbacks and props objects the reconciler   *)
(* hands to the adapter.  An object is named by its reference; two         *)
(* references may hold equal contents.                                     *)
(***************************************************************************)
S_RED == <<"r","e","d">>
S_FLEX == <<"f","l","e","x">>
S_5PCT == <<"5","%">>
S_CONSTRUCTOR == <<"c","o","n","s","t","r","u","c","t","o","r">>
S_HI == <<"h","i">>
S_AB == <<"a"," ","b">>
S_BCD == <<"b"," "," ","c",":","d">>

S_HORIZONTAL == <<"H","o","r","i","z","o","n","t","a","l">>
S_VERTICAL == <<"V","e","r","t","i","c","a","l">>
S_MULTIPLE == <<"M","u","l","t","i","p","l","e">>

\* Object.entries order is insertion order
STYLE_TABLE == <<
    << <<"width", Num(100)>>, <<"backgroundColor", Str(S_RED)>> >>,
    << <<"padding", Num(10)>>, <<"paddingTop", Str(S_5PCT)>>,
       <<"display", Str(S_FLEX)>>, <<"height", Undefined>> >>,
    << <<"width", Num(100)>>, <<"backgroundColor", Str(S_RED)>> >>,
    << <<"height", Num(5)>>, <<"color", Str(S_CONSTRUCTOR)>> >>
>>

PROPS_TABLE == <<
    <<>>,
    [onClick |-> Fn("A"), onPointerDown |-> Fn("B")],
    [style |-> Obj(1), className |-> Str(S_AB), onClick |-> Fn("A"),
     text |-> Str(S_HI)],
    [style |-> Obj(1), className |-> Str(S_AB), onClick |-> Fn("B")],
    [style |-> Obj(2), className |-> Str(S_BCD), onClick |-> Fn("A"),
     onPointerDown |-> Fn("B")],
    [style |-> Obj(4), onClick |-> Fn("B"), text |-> Str(S_HI)],
    [style |-> Obj(3), className |-> Str(S_AB), onClick |-> Fn("A"),
     text |-> Str(S_HI)],
    [text |-> Str(S_HI), value |-> Num(5), label |-> Str(S_AB),
     mode |-> Str(S_HORIZONTAL), elasticity |-> Num(1),
     selectionType |-> Str(S_MULTIPLE), fixedItemHeight |-> Num(10)],
    [value |-> Num(0), mode |-> Str(S_VERTICAL), reorderable |-> Bool(TRUE)]
>>
PropsRefs == 1 .. NumProps
\* the props objects that carry nothing but event handlers
TREE_REFS == {2}

(***************************************************************************)
(* host-config.ts: style                                                   *)
(***************************************************************************)
\* STYLE_SHORTHANDS[key]
shorthandOf(key) ==
    IF key \in DOMAIN STYLE_SHORTHANDS
    THEN [kind |-> "own", list |-> STYLE_SHORTHANDS[key]]
    ELSE IF key \in OBJECT_PROTOTYPE_NAMES THEN [kind |-> "inherited", list |-> <<>>]
    ELSE [kind |-> "undefined", list |-> <<>>]

RECURSIVE addAll(_, _)
addAll(keys, list) ==
    IF list = <<>> THEN keys ELSE addAll(SetAdd(keys, Head(list)), Tail(list))

RECURSIVE expandFrom(_, _, _)
expandFrom(entries, k, keys) ==
    IF k > Len(entries) THEN [threw |-> FALSE, keys |-> keys]
    ELSE LET key == entries[k][1]
             value == entries[k][2]
             expanded == shorthandOf(key)
         IN  IF value = Undefined THEN expandFrom(entries, k + 1, keys)
             ELSE IF expanded.kind = "own"
             THEN expandFrom(entries, k + 1, addAll(keys, expanded.list))
             ELSE IF expanded.kind = "inherited"
             THEN [threw |-> TRUE, keys |-> keys]
             ELSE expandFrom(entries, k + 1, SetAdd(keys, key))

\* a style object written out as its entries
StyleLit(entries) == [t |-> "object", entries |-> entries]

\* Object.entries(style): the entries of the object the style prop refers to
styleEntries(style) ==
    IF "entries" \in DOMAIN style THEN style.entries ELSE STYLE_TABLE[style.ref]

getExpandedStyleKeys(style) ==
    IF ~Truthy(style) THEN [threw |-> FALSE, keys |-> <<>>]
    ELSE expandFrom(styleEntries(style), 1, <<>>)

StyleCall(node, key, value) ==
    [api |-> "style", node |-> node, key |-> key, value |-> value]

RECURSIVE writeAll(_, _, _, _)
writeAll(acc, node, list, parsed) ==
    IF list = <<>> THEN acc
    ELSE writeAll([acc EXCEPT !.style = Put(acc.style, Head(list), parsed),
                              !.keys = SetAdd(acc.keys, Head(list)),
                              !.calls = Append(acc.calls,
                                               StyleCall(node, Head(list), parsed))],
                  node, Tail(list), parsed)

\* the key whose class decides how a value is parsed: the first longhand of
\* a shorthand, else the key itself
parseKey(key, expanded) == IF expanded.kind = "own" THEN expanded.list[1] ELSE key

\* one turn of the loop of applyStyle
applyEntry(acc, node, key, value, expanded, parsed) ==
    IF value = Undefined THEN acc
    ELSE IF IsThrow(parsed) \/ expanded.kind = "inherited"
    THEN [acc EXCEPT !.threw = TRUE]
    ELSE IF expanded.kind = "own" THEN writeAll(acc, node, expanded.list, parsed)
    ELSE writeAll(acc, node, <<key>>, parsed)

RECURSIVE applyFrom(_, _, _, _)
applyFrom(entries, k, node, acc) ==
    IF k > Len(entries) \/ acc.threw THEN acc
    ELSE applyFrom(entries, k + 1, node,
                   applyEntry(acc, node, entries[k][1], entries[k][2],
                              shorthandOf(entries[k][1]),
                              parseStyleValue(parseKey(entries[k][1],
                                                       shorthandOf(entries[k][1])),
                                              entries[k][2])))

\* writes the style object onto the element's style surface; keys is the
\* returned Set of applied keys, threw tells that an exception left it
applyStyle(elStyle, node, style) ==
    LET acc0 == [threw |-> FALSE, style |-> elStyle, keys |-> <<>>, calls |-> <<>>]
    IN  IF ~Truthy(style) THEN acc0
        ELSE applyFrom(styleEntries(style), 1, node, acc0)

RECURSIVE clearFrom(_, _, _, _, _)
clearFrom(oldKeys, k, newKeys, node, acc) ==
    IF k > Len(oldKeys) THEN acc
    ELSE IF oldKeys[k] \notin Range(newKeys)
    THEN clearFrom(oldKeys, k + 1, newKeys, node,
                   [style |-> Put(acc.style, oldKeys[k], Undefined),
                    calls |-> Append(acc.calls, StyleCall(node, oldKeys[k], Undefined))])
    ELSE clearFrom(oldKeys, k + 1, newKeys, node, acc)

clearRemovedStyles(elStyle, node, oldKeys, newKeys) ==
    clearFrom(oldKeys, 1, newKeys, node, [style |-> elStyle, calls |-> <<>>])


(***************************************************************************)
(* host-config.ts: classes, events, component props                        *)
(***************************************************************************)
ClassCall(api, node, cls) == [api |-> api, node |-> node, cls |-> cls]

\* element.AddToClassList for every token, in order
RECURSIVE addClasses(_, _, _)
addClasses(acc, node, toks) ==
    IF toks = <<>> THEN acc
    ELSE addClasses([classList |-> acc.classList \cup {escapeClassName(Head(toks))},
                     calls |-> Append(acc.calls,
                         ClassCall("AddToClassList", node, escapeClassName(Head(toks))))],
                    node, Tail(toks))

\* applyClassName that adds the tokens as they are written
applyClassNameRaw(classList, node, className) ==
    IF ~Truthy(className) THEN [classList |-> classList, calls |-> <<>>]
    ELSE [classList |-> classList \cup Range(splitTokens(className.s)),
          calls |-> [j \in DOMAIN splitTokens(className.s) |->
                        ClassCall("AddToClassList", node, splitTokens(className.s)[j])]]

applyClassName(classList, node, className) ==
    IF ~Truthy(className) THEN [classList |-> classList, calls |-> <<>>]
    ELSE addClasses([classList |-> classList, calls |-> <<>>], node,
                    splitTokens(className.s))

RECURSIVE removeGone(_, _, _, _)
removeGone(acc, node, oldClasses, newClasses) ==
    IF oldClasses = <<>> THEN acc
    ELSE removeGone(
            IF Head(oldClasses) \notin Range(newClasses)
            THEN [classList |-> acc.classList \ {Head(oldClasses)},
                  calls |-> Append(acc.calls,
                      ClassCall("RemoveFromClassList", node, Head(oldClasses)))]
            ELSE acc,
            node, Tail(oldClasses), newClasses)

RECURSIVE addNew(_, _, _, _)
addNew(acc, node, oldClasses, newClasses) ==
    IF newClasses = <<>> THEN acc
    ELSE addNew(
            IF Head(newClasses) \notin Range(oldClasses)
            THEN [classList |-> acc.classList \cup {Head(newClasses)},
                  calls |-> Append(acc.calls,
                      ClassCall("AddToClassList", node, Head(newClasses)))]
            ELSE acc,
            node, oldClasses, Tail(newClasses))

\* updateClassNames that removes every old class and adds every new one
updateClassNamesReplace(classList, node, oldClassName, newClassName) ==
    LET oldClasses == parseClassNames(oldClassName)
        newClasses == parseClassNames(newClassName)
    IN  addNew(removeGone([classList |-> classList, calls |-> <<>>],
                          node, oldClasses, <<>>),
               node, <<>>, newClasses)

updateClassNames(classList, node, oldClassName, newClassName) ==
    LET oldClasses == parseClassNames(oldClassName)
        newClasses == parseClassNames(newClassName)
    IN  addNew(removeGone([classList |-> classList, calls |-> <<>>],
                          node, oldClasses, newClasses),
               node, oldClasses, newClasses)

\* __eventAPI: the native listener registry, a bag of (type, callback) per node
Listener(eventType, callback) == [type |-> eventType, callback |-> callback]
addEventListener(lis, eventType, callback) ==
    lis (+) SetToBag({Listener(eventType, callback)})
removeEventListener(lis, eventType, callback) ==
    lis (-) SetToBag({Listener(eventType, callback)})
EventCall(api, node, eventType, callback) ==
    [api |-> api, node |-> node, type |-> eventType, callback |-> callback]

\* the loop body of applyEvents with the handler !== existingHandler test
\* left out: the handler is re-registered on every update
eventStepAlways(acc, node, eventType, handler) ==
    LET existingHandler == Get(acc.eventHandlers, eventType)
        a1 == IF Truthy(existingHandler)
              THEN [eventHandlers |-> Del(acc.eventHandlers, eventType),
                    lis |-> removeEventListener(acc.lis, eventType, existingHandler),
                    calls |-> Append(acc.calls,
                        EventCall("removeEventListener", node, eventType,
                                  existingHandler))]
              ELSE acc
    IN  IF Truthy(handler)
        THEN [eventHandlers |-> Put(a1.eventHandlers, eventType, handler),
              lis |-> addEventListener(a1.lis, eventType, handler),
              calls |-> Append(a1.calls,
                  EventCall("addEventListener", node, eventType, handler))]
        ELSE a1

\* the loop body of applyEvents for one event type
eventStep(acc, node, eventType, handler) ==
    LET existingHandler == Get(acc.eventHandlers, eventType)
        a1 == IF Truthy(existingHandler)
              THEN [eventHandlers |-> Del(acc.eventHandlers, eventType),
                    lis |-> removeEventListener(acc.lis, eventType, existingHandler),
                    calls |-> Append(acc.calls,
                        EventCall("removeEventListener", node, eventType,
                                  existingHandler))]
              ELSE acc
        a2 == IF Truthy(handler)
              THEN [eventHandlers |-> Put(a1.eventHandlers, eventType, handler),
                    lis |-> addEventListener(a1.lis, eventType, handler),
                    calls |-> Append(a1.calls,
                        EventCall("addEventListener", node, eventType, handler))]
              ELSE a1
    IN  IF handler # existingHandler THEN a2 ELSE acc

\* for (const [propName, eventType] of Object.entries(EVENT_PROPS))
RECURSIVE eventsFrom(_, _, _, _)
eventsFrom(k, node, props, acc) ==
    IF k > Len(EVENT_PROPS) THEN acc
    ELSE eventsFrom(k + 1, node, props,
                    eventStep(acc, node, EVENT_PROPS[k][2],
                              Get(props, EVENT_PROPS[k][1])))

applyEvents(eventHandlers, lis, node, props) ==
    eventsFrom(1, node, props,
               [eventHandlers |-> eventHandlers, lis |-> lis, calls |-> <<>>])


\* CS.UnityEngine.UIElements.<enumType>[name]: the native constant
CSEnum(enumType, name) == [t |-> "enum", enum |-> enumType, name |-> name]

\* the (prop, enum) pairs applyCommonProps, applyScrollViewProps and
\* applyListViewProps assign, in order; enum "" is a plain value prop
COMMON_PROPS == << <<"text", "">>, <<"value", "">>, <<"label", "">> >>
SCROLLVIEW_PROPS == <<
    <<"mode", "ScrollViewMode">>,
    <<"horizontalScrollerVisibility", "ScrollerVisibility">>,
    <<"verticalScrollerVisibility", "ScrollerVisibility">>,
    <<"touchScrollBehavior", "TouchScrollBehavior">>,
    <<"nestedInteractionKind", "NestedInteractionKind">>,
    <<"elasticity", "">>,
    <<"elasticAnimationIntervalMs", "">>,
    <<"scrollDecelerationRate", "">>,
    <<"mouseWheelScrollSize", "">>,
    <<"horizontalPageSize", "">>,
    <<"verticalPageSize", "">>
>>
LISTVIEW_PROPS == <<
    <<"itemsSource", "">>, <<"makeItem", "">>, <<"bindItem", "">>,
    <<"unbindItem", "">>, <<"destroyItem", "">>,
    <<"fixedItemHeight", "">>,
    <<"virtualizationMethod", "CollectionVirtualizationMethod">>,
    <<"selectionType", "SelectionType">>,
    <<"selectedIndex", "">>, <<"selectedIndices", "">>,
    <<"reorderable", "">>,
    <<"reorderMode", "ListViewReorderMode">>,
    <<"showFoldoutHeader", "">>, <<"headerTitle", "">>,
    <<"showAddRemoveFooter", "">>,
    <<"showBorder", "">>,
    <<"showAlternatingRowBackgrounds", "AlternatingRowBackground">>
>>

FieldCall(node, field, value) ==
    [api |-> "field", node |-> node, field |-> field, value |-> value]

\* setValueProp / setEnumProp for every pair of the list
RECURSIVE setProps(_, _, _, _)
setProps(acc, node, props, list) ==
    IF list = <<>> THEN acc
    ELSE LET prop == Head(list)[1]
             enumType == Head(list)[2]
             raw == Get(props, prop)
             v == IF enumType = "" THEN raw ELSE CSEnum(enumType, raw)
         IN  setProps(IF raw # Undefined
                      THEN [fields |-> Put(acc.fields, prop, v),
                            calls |-> Append(acc.calls, FieldCall(node, prop, v))]
                      ELSE acc,
                      node, props, Tail(list))

\* applyCommonProps without the !== undefined tests: an absent prop resets
\* the field
applyCommonPropsResets(fields, node, props) ==
    [fields |-> Put(Put(Put(fields, "text", Get(props, "text")),
                        "value", Get(props, "value")),
                    "label", Get(props, "label")),
     calls |-> <<FieldCall(node, "text", Get(props, "text")),
                 FieldCall(node, "value", Get(props, "value")),
                 FieldCall(node, "label", Get(props, "label"))>>]

applyCommonProps(fields, node, props) ==
    setProps([fields |-> fields, calls |-> <<>>], node, props, COMMON_PROPS)

applyComponentProps(fields, node, type, props) ==
    LET common == applyCommonProps(fields, node, props)
    IN  IF type = "ojs-scrollview" THEN setProps(common, node, props, SCROLLVIEW_PROPS)
        ELSE IF type = "ojs-listview" THEN setProps(common, node, props, LISTVIEW_PROPS)
        ELSE common

(***************************************************************************)
(* host-config.ts: createInstance, updateInstance                          *)
(***************************************************************************)
\* the native element a factory of TYPE_MAP constructs (mocks.ts)
NewElement(type) ==
    [style |-> <<>>, classList |-> {}, children |-> <<>>,
     fields |-> [text |-> Str(<<>>), value |-> TYPE_MAP[type].value,
                 label |-> Str(<<>>)]]

NewCall(node, type) == [api |-> "new", node |-> node, type |-> type]

\* what factory() gives when TYPE_MAP[type] is a member the object literal
\* inherits: Object() gives a plain object, toString() and isPrototypeOf()
\* a primitive, the other members cannot be called without a receiver (and
\* __proto__ is no function)
inheritedFactory(type) ==
    CASE type = "constructor" -> "object"
      [] type \in {"toString", "isPrototypeOf"} -> "primitive"
      [] OTHER -> "TypeError"

\* the style object holds an entry applyStyle does not skip
writesStyle(style) ==
    /\ Truthy(style)
    /\ \E k \in DOMAIN styleEntries(style) : styleEntries(style)[k][2] # Undefined

\* a non-empty className has a token to hand to AddToClassList
addsClass(className) ==
    Truthy(className) /\ splitTokens(className.s) # <<>>

\* createInstance on an element that is no native node: element.style is
\* undefined and AddToClassList is no function, so the first style write or
\* class call throws; the listener registry takes any element; a field
\* assignment creates the property on a plain object and throws on a
\* primitive
createdInherited(result, type, propsRef, node, props, ev, cp) ==
    IF result = "TypeError"
       \/ writesStyle(Get(props, "style"))
       \/ addsClass(Get(props, "className"))
    THEN [threw |-> TRUE, calls |-> <<>>]
    ELSE IF result = "primitive" /\ cp.calls # <<>>
    THEN [threw |-> TRUE, calls |-> ev.calls]
    ELSE [threw |-> FALSE,
          calls |-> ev.calls \o cp.calls,
          instance |-> [element |-> node, type |-> type, props |-> propsRef,
                        eventHandlers |-> ev.eventHandlers,
                        appliedStyleKeys |-> <<>>],
          el |-> [style |-> <<>>, classList |-> {}, children |-> <<>>,
                  fields |-> cp.fields],
          lis |-> ev.lis]

\* the instance, its element and its listeners once the four apply steps
\* have run, or threw
created(type, propsRef, node, element, st, cl, ev, cp) ==
    IF type \notin DOMAIN TYPE_MAP
    THEN [threw |-> TRUE, calls |-> <<>>]
    ELSE IF st.threw
    THEN [threw |-> TRUE, calls |-> <<NewCall(node, type)>> \o st.calls]
    ELSE [threw |-> FALSE,
          calls |-> <<NewCall(node, type)>> \o st.calls \o cl.calls
                    \o ev.calls \o cp.calls,
          instance |-> [element |-> node, type |-> type, props |-> propsRef,
                        eventHandlers |-> ev.eventHandlers,
                        appliedStyleKeys |-> st.keys],
          el |-> [element EXCEPT !.style = st.style,
                                 !.classList = cl.classList,
                                 !.fields = cp.fields],
          lis |-> ev.lis]

\* createInstance(type, props) building element number node
createInstance(type, propsRef, node) ==
    IF type \in OBJECT_PROTOTYPE_NAMES
    THEN createdInherited(inheritedFactory(type), type, propsRef, node,
                          PROPS_TABLE[propsRef],
                          applyEvents(<<>>, EmptyBag, node, PROPS_TABLE[propsRef]),
                          applyComponentProps(<<>>, node, type, PROPS_TABLE[propsRef]))
    ELSE
    created(type, propsRef, node, NewElement(type),
            applyStyle(NewElement(type).style, node,
                       Get(PROPS_TABLE[propsRef], "style")),
            applyClassName(NewElement(type).classList, node,
                           Get(PROPS_TABLE[propsRef], "className")),
            applyEvents(<<>>, EmptyBag, node, PROPS_TABLE[propsRef]),
            applyComponentProps(NewElement(type).fields, node, type,
                                PROPS_TABLE[propsRef]))

\* the style step of updateInstance: clearRemovedStyles, then applyStyle on
\* what it left
styleStep(elStyle, node, oldKeys, newKeys, style) ==
    applyStyle(clearRemovedStyles(elStyle, node, oldKeys, newKeys).style, node, style)

\* updateInstance with the event diff run before the class diff
updatedEventsFirst(instance, el, lis, newRef, doStyle, keysThrew, clearCalls, st, cl, ev, cp) ==
    IF doStyle /\ (keysThrew \/ st.threw)
    THEN [threw |-> TRUE, calls |-> <<>>, instance |-> instance, el |-> el,
          lis |-> lis]
    ELSE [threw |-> FALSE,
          calls |-> (IF doStyle THEN clearCalls \o st.calls ELSE <<>>)
                    \o ev.calls \o cl.calls \o cp.calls,
          instance |-> [instance EXCEPT
              !.appliedStyleKeys = IF doStyle THEN st.keys ELSE @,
              !.eventHandlers = ev.eventHandlers,
              !.props = newRef],
          el |-> [el EXCEPT
              !.style = IF doStyle THEN st.style ELSE @,
              !.classList = cl.classList,
              !.fields = cp.fields],
          lis |-> ev.lis]

\* updateInstance once its steps have run: st is the style step, clearCalls
\* the writes of clearRemovedStyles; an exception leaves the writes made
\* before it
updated(instance, el, lis, newRef, doStyle, keysThrew, clearCalls, st, cl, ev, cp) ==
    IF doStyle /\ keysThrew
    THEN [threw |-> TRUE, calls |-> <<>>, instance |-> instance, el |-> el,
          lis |-> lis]
    ELSE IF doStyle /\ st.threw
    THEN [threw |-> TRUE, calls |-> clearCalls \o st.calls, instance |-> instance,
          el |-> [el EXCEPT !.style = st.style], lis |-> lis]
    ELSE [threw |-> FALSE,
          calls |-> (IF doStyle THEN clearCalls \o st.calls ELSE <<>>)
                    \o cl.calls \o ev.calls \o cp.calls,
          instance |-> [instance EXCEPT
              !.appliedStyleKeys = IF doStyle THEN st.keys ELSE @,
              !.eventHandlers = ev.eventHandlers,
              !.props = newRef],
          el |-> [el EXCEPT
              !.style = IF doStyle THEN st.style ELSE @,
              !.classList = cl.classList,
              !.fields = cp.fields],
          lis |-> ev.lis]

\* the class step of updateInstance, run when doClass says so
classStep(classList, node, oldClassName, newClassName, doClass) ==
    IF doClass THEN updateClassNames(classList, node, oldClassName, newClassName)
    ELSE [classList |-> classList, calls |-> <<>>]

\* updateInstance with the style step and the class step run when doStyle
\* and doClass say so
updateWith(instance, el, lis, oldProps, newProps, newRef, doStyle, doClass, newStyleKeys) ==
    updated(instance, el, lis, newRef, doStyle, newStyleKeys.threw,
            clearRemovedStyles(el.style, instance.element, instance.appliedStyleKeys,
                               newStyleKeys.keys).calls,
            styleStep(el.style, instance.element, instance.appliedStyleKeys,
                      newStyleKeys.keys, Get(newProps, "style")),
            classStep(el.classList, instance.element, Get(oldProps, "className"),
                      Get(newProps, "className"), doClass),
            applyEvents(instance.eventHandlers, lis, instance.element, newProps),
            applyComponentProps(el.fields, instance.element, instance.type, newProps))

updateSteps(instance, el, lis, oldRef, newRef, doStyle, doClass) ==
    updateWith(instance, el, lis, PROPS_TABLE[oldRef], PROPS_TABLE[newRef], newRef,
               doStyle, doClass,
               getExpandedStyleKeys(Get(PROPS_TABLE[newRef], "style")))

\* updateInstance without the assignment to instance.appliedStyleKeys
updateInstanceStaleKeys(instance, el, lis, oldRef, newRef) ==
    LET r == updateSteps(instance, el, lis, oldRef, newRef,
                Get(PROPS_TABLE[oldRef], "style") # Get(PROPS_TABLE[newRef], "style"),
                Get(PROPS_TABLE[oldRef], "className")
                    # Get(PROPS_TABLE[newRef], "className"))
    IN  [r EXCEPT !.instance.appliedStyleKeys = instance.appliedStyleKeys]

\* updateInstance with the style step run on every update
updateInstanceAlwaysStyle(instance, el, lis, oldRef, newRef) ==
    updateSteps(instance, el, lis, oldRef, newRef, TRUE,
                Get(PROPS_TABLE[oldRef], "className")
                    # Get(PROPS_TABLE[newRef], "className"))

updateInstance(instance, el, lis, oldRef, newRef) ==
    updateSteps(instance, el, lis, oldRef, newRef,
                Get(PROPS_TABLE[oldRef], "style") # Get(PROPS_TABLE[newRef], "style"),
                Get(PROPS_TABLE[oldRef], "className")
                    # Get(PROPS_TABLE[newRef], "className"))

(***************************************************************************)
(* mocks.ts: the child list of a native element                            *)
(***************************************************************************)
\* zero-based index of child, -1 when absent
IndexOf(children, child) ==
    IF child \in Range(children)
    THEN (CHOOSE i \in DOMAIN children : children[i] = child) - 1
    ELSE -1

\* splice(indexOf(child), 1) when child is present
Without(children, child) ==
    LET i == IndexOf(children, child) + 1
    IN  IF i = 0 THEN children
        ELSE SubSeq(children, 1, i - 1) \o SubSeq(children, i + 1, Len(children))

Add(children, child) ==
    IF child \notin Range(children) THEN Append(children, child) ELSE children

\* Insert without the removal of an existing occurrence
InsertKeepsExisting(children, index, child) ==
    LET at == IF index > Len(children) THEN Len(children) ELSE index
    IN  SubSeq(children, 1, at) \o <<child>> \o SubSeq(children, at + 1, Len(children))

\* splice(existingIndex, 1) when present, then splice(index, 0, child)
Insert(children, index, child) ==
    LET rest == Without(children, child)
        at == IF index > Len(rest) THEN Len(rest) ELSE index
    IN  SubSeq(rest, 1, at) \o <<child>> \o SubSeq(rest, at + 1, Len(rest))

Remove(children, child) == Without(children, child)

ChildCall(api, node, child, index) ==
    [api |-> api, node |-> node, child |-> child, index |-> index]


(***************************************************************************)
(* renderer.ts: the root map and the reconciler it drives                  *)
(***************************************************************************)
\* the object reconciler.createContainer returns; id is its identity
Root(id) == [t |-> "root", id |-> id]

\* render(null): the element of a null-tree update
NULL_ELEMENT == 0

\* the reconciler before any root exists: fibers are its roots (container,
\* the pending update, the mounted top-level instance and its props),
\* schedule the roots with a pending update in the order they were
\* scheduled, work the host operations of the commit that is running
Reconciler == [fibers |-> <<>>, schedule |-> <<>>, work |-> <<>>]

ReconcilerCall(api, root, element) == [api |-> api, root |-> root, element |-> element]

\* reconciler.createContainer(container, ...): a new root
createContainer(rec, container) ==
    [rec EXCEPT !.fibers = Append(@, [container |-> container, update |-> <<>>,
                                      child |-> 0, props |-> 0])]

\* reconciler.updateContainer(element, root, ...): the element replaces the
\* pending one (a root update carries the whole tree) and the root is
\* scheduled
updateContainer(rec, element, root) ==
    [rec EXCEPT !.fibers[root.id].update = <<element>>,
                !.schedule = SetAdd(@, root.id)]

\* roots.get(container)
getRoot(rts, container) == Get(rts, container)

\* render with the roots.get(container) lookup left out: every call makes a
\* new root
renderAlwaysCreates(rts, rec, element, container) ==
    [roots |-> Put(rts, container, Root(Len(rec.fibers) + 1)),
     reconciler |-> updateContainer(createContainer(rec, container), element,
                                    Root(Len(rec.fibers) + 1)),
     calls |-> <<ReconcilerCall("createContainer", Root(Len(rec.fibers) + 1),
                                NULL_ELEMENT),
                 ReconcilerCall("updateContainer", Root(Len(rec.fibers) + 1),
                                element)>>]

\* render(element, container) up to the flush, which is the reconciler's
render(rts, rec, element, container) ==
    IF ~Truthy(Get(rts, container))
    THEN [roots |-> Put(rts, container, Root(Len(rec.fibers) + 1)),
          reconciler |-> updateContainer(createContainer(rec, container), element,
                                         Root(Len(rec.fibers) + 1)),
          calls |-> <<ReconcilerCall("createContainer", Root(Len(rec.fibers) + 1),
                                     NULL_ELEMENT),
                      ReconcilerCall("updateContainer", Root(Len(rec.fibers) + 1),
                                     element)>>]
    ELSE [roots |-> rts,
          reconciler |-> updateContainer(rec, element, Get(rts, container)),
          calls |-> <<ReconcilerCall("updateContainer", Get(rts, container),
                                     element)>>]

\* unmount without roots.delete(container)
unmountKeepsRoot(rts, rec, container) ==
    IF Truthy(Get(rts, container))
    THEN [roots |-> rts,
          reconciler |-> updateContainer(rec, NULL_ELEMENT, Get(rts, container)),
          calls |-> <<ReconcilerCall("updateContainer", Get(rts, container),
                                     NULL_ELEMENT)>>]
    ELSE [roots |-> rts, reconciler |-> rec, calls |-> <<>>]

\* unmount(container)
unmount(rts, rec, container) ==
    IF Truthy(Get(rts, container))
    THEN [roots |-> Del(rts, container),
          reconciler |-> updateContainer(rec, NULL_ELEMENT, Get(rts, container)),
          calls |-> <<ReconcilerCall("updateContainer", Get(rts, container),
                                     NULL_ELEMENT)>>]
    ELSE [roots |-> rts, reconciler |-> rec, calls |-> <<>>]

(***************************************************************************)
(* host-config.ts: update priority                                         *)
(***************************************************************************)
DiscreteEventPriority == 2
ContinuousEventPriority == 8
DefaultEventPriority == 32
IdleEventPriority == 536870912

\* setCurrentUpdatePriority(priority): the new value of the cell
setCurrentUpdatePriority(current, priority) == priority

getCurrentUpdatePriority(current) == current

\* resolveUpdatePriority with the || of line 615 left out
resolveUpdatePriorityRaw(current) == current

\* currentUpdatePriority || DefaultEventPriority: 0 is the one falsy priority
resolveUpdatePriority(current) ==
    IF current = 0 THEN DefaultEventPriority ELSE current

(***************************************************************************)
(* State                                                                   *)
(***************************************************************************)
VARIABLES
    instances,  \* instance id -> Instance record (element, type, props, ...)
    elements,   \* native node -> style surface, class list, fields, children
    listeners,  \* native node -> bag of registered native listeners
    last,       \* the last adapter call: name, arguments, native calls issued
    roots,      \* renderer.ts: container -> reconciler root
    reconciler, \* the reconciler's roots, its schedule and the running commit
    currentUpdatePriority  \* host-config.ts: the priority of the current update

vars == <<instances, elements, listeners, last, roots, reconciler,
          currentUpdatePriority>>

\* the native node of the container handed to render()
CONTAINER == 0

Call(op, a, b, c, type, threw, calls) ==
    [op |-> op, a |-> a, b |-> b, c |-> c, type |-> type, threw |-> threw,
     calls |-> calls]

Init ==
    /\ instances = <<>>
    /\ elements = (CONTAINER :> [style |-> <<>>, classList |-> {}, children |-> <<>>,
                                 fields |-> [text |-> Str(<<>>), value |-> Undefined,
                                             label |-> Str(<<>>)]])
    /\ listeners = (CONTAINER :> EmptyBag)
    /\ last = Call("init", 0, 0, 0, "", FALSE, <<>>)
    /\ roots = <<>>
    /\ reconciler = Reconciler
    /\ currentUpdatePriority = DefaultEventPriority

\* the element types createInstance is called with
TYPES == {"ojs-button", "unknown-type"}

\* props objects whose contents are equal (style objects by content)
PropsEqual(p, q) ==
    LET P == PROPS_TABLE[p]
        Q == PROPS_TABLE[q]
        same(k) == IF k = "style" /\ Truthy(P[k]) /\ Truthy(Q[k])
                   THEN STYLE_TABLE[P[k].ref] = STYLE_TABLE[Q[k].ref]
                   ELSE P[k] = Q[k]
    IN  DOMAIN P = DOMAIN Q /\ \A k \in DOMAIN P : same(k)

(***************************************************************************)
(* Actions: one per hostConfig method                                      *)
(***************************************************************************)
\* createInstance returned r, or threw
Created(type, propsRef, node, r) ==
    IF r.threw
    THEN /\ UNCHANGED <<instances, elements, listeners>>
         /\ last' = Call("createInstance", 0, propsRef, 0, type, TRUE, r.calls)
    ELSE /\ instances' = Append(instances, r.instance)
         /\ elements' = (node :> r.el) @@ elements
         /\ listeners' = (node :> r.lis) @@ listeners
         /\ last' = Call("createInstance", node, propsRef, 0, type, FALSE, r.calls)

\* createInstance with the type drawn from types and the props from refs
CreateInstanceOf(max, types, refs) ==
    \E type \in types, propsRef \in refs :
        /\ Len(instances) < max
        /\ Created(type, propsRef, Len(instances) + 1,
                   createInstance(type, propsRef, Len(instances) + 1))
        /\ UNCHANGED <<roots, reconciler, currentUpdatePriority>>

CreateInstance(max, refs) == CreateInstanceOf(max, TYPES, refs)

\* the element types of SpecCreate: a native one, one no table has, and two
\* names TYPE_MAP inherits from Object.prototype
CREATE_TYPES == {"ojs-button", "unknown-type", "constructor", "valueOf"}

CreateAnyInstance ==
    \E type \in CREATE_TYPES, propsRef \in PropsRefs :
        /\ Len(instances) < MaxCreated
        /\ Created(type, propsRef, Len(instances) + 1,
                   createInstance(type, propsRef, Len(instances) + 1))
        /\ UNCHANGED <<roots, reconciler, currentUpdatePriority>>

\* the text contents createTextInstance is called with
TEXTS == {Str(S_HI), Str(<<>>)}

\* a Label whose text is set; the instance has type 'text' and empty props
CreateTextInstance ==
    \E text \in TEXTS :
        /\ Len(instances) < MaxCreated
        /\ instances' = Append(instances,
              [element |-> Len(instances) + 1, type |-> "text", props |-> 1,
               eventHandlers |-> <<>>, appliedStyleKeys |-> <<>>])
        /\ elements' = (Len(instances) + 1 :>
                           [NewElement("ojs-label") EXCEPT !.fields.text = text])
                       @@ elements
        /\ listeners' = (Len(instances) + 1 :> EmptyBag) @@ listeners
        /\ last' = Call("createTextInstance", Len(instances) + 1, 0, 0, "text", FALSE,
                        <<NewCall(Len(instances) + 1, "ojs-label"),
                          FieldCall(Len(instances) + 1, "text", text)>>)
        /\ UNCHANGED <<roots, reconciler, currentUpdatePriority>>

\* updateInstance left r
Committed(i, node, oldRef, newRef, r) ==
    /\ instances' = [instances EXCEPT ![i] = r.instance]
    /\ elements' = [elements EXCEPT ![node] = r.el]
    /\ listeners' = [listeners EXCEPT ![node] = r.lis]
    /\ last' = Call("commitUpdate", i, oldRef, newRef, "", r.threw, r.calls)

\* commitUpdate with old and new props drawn from refs
CommitUpdateOf(refs) ==
    \E i \in DOMAIN instances, oldRef \in refs, newRef \in refs :
        /\ PropsEqual(oldRef, instances[i].props)
        /\ Committed(i, instances[i].element, oldRef, newRef,
                     updateInstance(instances[i], elements[instances[i].element],
                                    listeners[instances[i].element], oldRef, newRef))
        /\ UNCHANGED <<roots, reconciler, currentUpdatePriority>>

CommitUpdate == CommitUpdateOf(PropsRefs)

\* an append whose Add is put off: the call is recorded and the child list
\* is left as it was
AddToDeferred(op, parentNode, a, child) ==
    /\ last' = Call(op, a, child, 0, "", FALSE,
                    <<ChildCall("Add", parentNode, instances[child].element, -1)>>)
    /\ UNCHANGED <<instances, elements, listeners>>

\* parentInstance.element.Add(child.element) / container.Add(child.element)
AddTo(op, parentNode, a, child) ==
    LET node == instances[child].element
    IN  /\ elements' = [elements EXCEPT ![parentNode].children = Add(@, node)]
        /\ last' = Call(op, a, child, 0, "", FALSE,
                        <<ChildCall("Add", parentNode, node, -1)>>)
        /\ UNCHANGED <<instances, listeners>>

AppendInitialChild ==
    \E parent \in DOMAIN instances, child \in DOMAIN instances :
        /\ parent # child
        /\ AddTo("appendInitialChild", instances[parent].element, parent, child)
        /\ UNCHANGED <<roots, reconciler, currentUpdatePriority>>

AppendChild ==
    \E parent \in DOMAIN instances, child \in DOMAIN instances :
        /\ parent # child
        /\ AddTo("appendChild", instances[parent].element, parent, child)
        /\ UNCHANGED <<roots, reconciler, currentUpdatePriority>>

AppendChildToContainer ==
    \E child \in DOMAIN instances :
        /\ AddTo("appendChildToContainer", CONTAINER, CONTAINER, child)
        /\ UNCHANGED <<roots, reconciler, currentUpdatePriority>>

\* IndexOf(beforeChild), then Insert at that index, or Add when it is absent
InsertInto(op, parentNode, a, child, beforeChild) ==
    LET node == instances[child].element
        index == IndexOf(elements[parentNode].children, instances[beforeChild].element)
    IN  /\ elements' = [elements EXCEPT ![parentNode].children =
                            IF index >= 0 THEN Insert(@, index, node) ELSE Add(@, node)]
        /\ last' = Call(op, a, child, beforeChild, "", FALSE,
                        <<ChildCall("IndexOf", parentNode,
                                    instances[beforeChild].element, -1),
                          IF index >= 0 THEN ChildCall("Insert", parentNode, node, index)
                          ELSE ChildCall("Add", parentNode, node, -1)>>)
        /\ UNCHANGED <<instances, listeners>>

InsertBefore ==
    \E parent \in DOMAIN instances, child \in DOMAIN instances,
       beforeChild \in DOMAIN instances :
        /\ parent # child /\ parent # beforeChild /\ child # beforeChild
        /\ InsertInto("insertBefore", instances[parent].element, parent, child,
                      beforeChild)
        /\ UNCHANGED <<roots, reconciler, currentUpdatePriority>>

InsertInContainerBefore ==
    \E child \in DOMAIN instances, beforeChild \in DOMAIN instances :
        /\ child # beforeChild
        /\ InsertInto("insertInContainerBefore", CONTAINER, CONTAINER, child,
                      beforeChild)
        /\ UNCHANGED <<roots, reconciler, currentUpdatePriority>>

\* removal that detaches the node and leaves its listeners registered
RemoveFromKeepsListeners(op, parentNode, a, child) ==
    LET node == instances[child].element
    IN  /\ elements' = [elements EXCEPT ![parentNode].children = Remove(@, node)]
        /\ last' = Call(op, a, child, 0, "", FALSE,
                        <<ChildCall("Remove", parentNode, node, -1)>>)
        /\ UNCHANGED <<instances, listeners>>

\* __eventAPI.removeAllEventListeners(child.element), then Remove
RemoveFrom(op, parentNode, a, child) ==
    LET node == instances[child].element
    IN  /\ listeners' = [listeners EXCEPT ![node] = EmptyBag]
        /\ elements' = [elements EXCEPT ![parentNode].children = Remove(@, node)]
        /\ last' = Call(op, a, child, 0, "", FALSE,
                        <<[api |-> "removeAllEventListeners", node |-> node],
                          ChildCall("Remove", parentNode, node, -1)>>)
        /\ UNCHANGED instances

RemoveChild ==
    \E parent \in DOMAIN instances, child \in DOMAIN instances :
        /\ parent # child
        /\ RemoveFrom("removeChild", instances[parent].element, parent, child)
        /\ UNCHANGED <<roots, reconciler, currentUpdatePriority>>

RemoveChildFromContainer ==
    \E child \in DOMAIN instances :
        /\ RemoveFrom("removeChildFromContainer", CONTAINER, CONTAINER, child)
        /\ UNCHANGED <<roots, reconciler, currentUpdatePriority>>

\* a clearContainer that deregisters the listeners of the children it removes
ClearedDeregisters(container) ==
    /\ elements' = [elements EXCEPT ![container].children = <<>>]
    /\ listeners' = [n \in DOMAIN listeners |->
                        IF n \in Range(elements[container].children)
                        THEN EmptyBag ELSE listeners[n]]
    /\ last' = Call("clearContainer", container, 0, 0, "", FALSE,
                    <<[api |-> "Clear", node |-> container]>>)
    /\ UNCHANGED instances

\* container.Clear()
Cleared(container) ==
    /\ elements' = [elements EXCEPT ![container].children = <<>>]
    /\ last' = Call("clearContainer", container, 0, 0, "", FALSE,
                    <<[api |-> "Clear", node |-> container]>>)
    /\ UNCHANGED <<instances, listeners>>

ClearContainer ==
    /\ Cleared(CONTAINER)
    /\ UNCHANGED <<roots, reconciler, currentUpdatePriority>>

S_NONE == <<"n","o","n","e">>

\* a display write that also records the key in appliedStyleKeys
SetDisplayTracked(op, i, value) ==
    LET node == instances[i].element
    IN  /\ elements' = [elements EXCEPT ![node].style = Put(@, "display", value)]
        /\ instances' = [instances EXCEPT ![i].appliedStyleKeys = SetAdd(@, "display")]
        /\ last' = Call(op, i, 0, 0, "", FALSE, <<StyleCall(node, "display", value)>>)
        /\ UNCHANGED listeners

\* instance.element.style.display = value
SetDisplay(op, i, value) ==
    LET node == instances[i].element
    IN  /\ elements' = [elements EXCEPT ![node].style = Put(@, "display", value)]
        /\ last' = Call(op, i, 0, 0, "", FALSE, <<StyleCall(node, "display", value)>>)
        /\ UNCHANGED <<instances, listeners>>

HideInstance ==
    \E i \in DOMAIN instances :
        /\ instances[i].type # "text"
        /\ SetDisplay("hideInstance", i, Str(S_NONE))
        /\ UNCHANGED <<roots, reconciler, currentUpdatePriority>>

UnhideInstance ==
    \E i \in DOMAIN instances :
        /\ instances[i].type # "text"
        /\ SetDisplay("unhideInstance", i, Str(<<>>))
        /\ UNCHANGED <<roots, reconciler, currentUpdatePriority>>

HideTextInstance ==
    \E i \in DOMAIN instances :
        /\ instances[i].type = "text"
        /\ SetDisplay("hideTextInstance", i, Str(S_NONE))
        /\ UNCHANGED <<roots, reconciler, currentUpdatePriority>>

UnhideTextInstance ==
    \E i \in DOMAIN instances :
        /\ instances[i].type = "text"
        /\ SetDisplay("unhideTextInstance", i, Str(<<>>))
        /\ UNCHANGED <<roots, reconciler, currentUpdatePriority>>

\* the characters of the className strings of SpecClass: two letters, a
\* white-space character and a character CLASS_ESCAPE_MAP rewrites
CLASS_ALPHABET == {"a", "b", " ", ":"}

\* every className prop up to MaxClassLen characters, and the absent prop
CLASS_STRINGS ==
    {Undefined} \cup
    {Str(s) : s \in UNION {[1 .. k -> CLASS_ALPHABET] : k \in 0 .. MaxClassLen}}

\* the state before a call of updateClassNames(element, old, new): the
\* element carries the classes applyClassName put there for the old prop
InitClass ==
    /\ instances = <<>>
    /\ \E old \in CLASS_STRINGS, new \in CLASS_STRINGS :
          /\ last = Call("classInput", old, new, 0, "", FALSE, <<>>)
          /\ elements = (CONTAINER :>
                [style |-> <<>>,
                 classList |-> applyClassName({}, CONTAINER, old).classList,
                 children |-> <<>>,
                 fields |-> [text |-> Str(<<>>), value |-> Undefined,
                             label |-> Str(<<>>)]])
    /\ listeners = (CONTAINER :> EmptyBag)
    /\ roots = <<>>
    /\ reconciler = Reconciler
    /\ currentUpdatePriority = DefaultEventPriority

ClassUpdated(old, new, r) ==
    /\ elements' = [elements EXCEPT ![CONTAINER].classList = r.classList]
    /\ last' = Call("updateClassNames", old, new, 0, "", FALSE, r.calls)
    /\ UNCHANGED <<instances, listeners>>

UpdateClassNames ==
    /\ last.op = "classInput"
    /\ ClassUpdated(last.a, last.b,
                    updateClassNames(elements[CONTAINER].classList, CONTAINER,
                                     last.a, last.b))
    /\ UNCHANGED <<roots, reconciler, currentUpdatePriority>>

\* the state after createInstance with a className prop: the classes
\* applyClassName gave the new node
InitClassName ==
    /\ instances = <<>>
    /\ \E className \in CLASS_STRINGS :
          /\ last = Call("applyClassName", Undefined, className, 0, "", FALSE,
                         applyClassName({}, CONTAINER, className).calls)
          /\ elements = (CONTAINER :>
                [style |-> <<>>,
                 classList |-> applyClassName({}, CONTAINER, className).classList,
                 children |-> <<>>,
                 fields |-> [text |-> Str(<<>>), value |-> Undefined,
                             label |-> Str(<<>>)]])
    /\ listeners = (CONTAINER :> EmptyBag)
    /\ roots = <<>>
    /\ reconciler = Reconciler
    /\ currentUpdatePriority = DefaultEventPriority

\* the className step of commitUpdate, whose oldProps are the props of the
\* call before: skipped when the two strings are equal
ClassStepped(old, new, r) ==
    /\ elements' = [elements EXCEPT ![CONTAINER].classList = r.classList]
    /\ last' = Call("className", old, new, 0, "", FALSE, r.calls)
    /\ UNCHANGED <<instances, listeners>>

ClassNameCommitted ==
    /\ last.op \in {"applyClassName", "className"}
    /\ \E new \in CLASS_STRINGS :
          ClassStepped(last.b, new,
                       classStep(elements[CONTAINER].classList, CONTAINER,
                                 last.b, new, last.b # new))
    /\ UNCHANGED <<roots, reconciler, currentUpdatePriority>>

(***************************************************************************)
(* getExpandedStyleKeys and applyStyle on a fresh element                  *)
(***************************************************************************)
\* the keys of the style objects of SpecStyle: the five shorthands, a
\* longhand of one of them and a color property
STYLE_KEYS == {"padding", "margin", "borderWidth", "borderColor", "borderRadius",
               "paddingTop", "color"}

STYLE_VALUES == {Undefined, Null, Num(10), Str(S_5PCT), Str(S_RED),
                 Str(S_CONSTRUCTOR)}

\* undefined, and every style object of up to MaxStyleLen entries
STYLE_OBJECTS ==
    {Undefined} \cup
    {StyleLit(e) : e \in
        {s \in UNION {[1 .. k -> STYLE_KEYS \X STYLE_VALUES] : k \in 0 .. MaxStyleLen} :
            \A i \in DOMAIN s, j \in DOMAIN s : i # j => s[i][1] # s[j][1]}}

InitStyle ==
    /\ instances = <<>>
    /\ elements = (CONTAINER :> [style |-> <<>>, classList |-> {}, children |-> <<>>,
                                 fields |-> [text |-> Str(<<>>), value |-> Undefined,
                                             label |-> Str(<<>>)]])
    /\ listeners = (CONTAINER :> EmptyBag)
    /\ \E style \in STYLE_OBJECTS :
          last = Call("styleInput", style, 0, 0, "", FALSE, <<>>)
    /\ roots = <<>>
    /\ reconciler = Reconciler
    /\ currentUpdatePriority = DefaultEventPriority

\* applyStyle returned r, or threw
StyleApplied(style, r) ==
    /\ elements' = [elements EXCEPT ![CONTAINER].style = r.style]
    /\ last' = Call("applyStyle", style, 0, r.keys, "", r.threw, r.calls)
    /\ UNCHANGED <<instances, listeners, roots, reconciler, currentUpdatePriority>>

ApplyStyle ==
    /\ last.op = "styleInput"
    /\ StyleApplied(last.a, applyStyle(elements[CONTAINER].style, CONTAINER, last.a))

\* getExpandedStyleKeys on the style object applyStyle was given; b holds
\* what it returned, c and calls still what applyStyle did
GetExpandedStyleKeys ==
    /\ last.op = "applyStyle"
    /\ last' = [last EXCEPT !.op = "getExpandedStyleKeys",
                            !.b = getExpandedStyleKeys(last.a)]
    /\ UNCHANGED <<instances, elements, listeners, roots, reconciler,
                   currentUpdatePriority>>

(***************************************************************************)
(* parseLength on numbers, strings and other values                        *)
(***************************************************************************)
LENGTH_ALPHABET == {"1", "5", ".", "-", "p", "x", "P", "%", " "}

S_AUTO_UPPER == <<"A","U","T","O">>
S_AUTO_MIXED == <<"A","u","t","o">>
S_NONE_PADDED == <<" ","N","o","n","e"," ">>
S_INITIAL_UPPER == <<"I","N","I","T","I","A","L">>
S_INVALID == <<"i","n","v","a","l","i","d">>
S_100EM == <<"1","0","0","e","m">>
S_1_2_3 == <<"1",".","2",".","3">>
S_100PX_PADDED == <<" "," ","1","0","0","p","x"," "," ">>
S_NEG_1_5PX == <<"-","1",".","5","p","x">>
S_12_5PCT == <<"1","2",".","5","%">>
S_1_5PX_UPPER == <<"1",".","5","P","X">>
S_1_5PX_MIXED == <<"1",".","5","p","X">>
S_50PCT == <<"5","0","%">>

\* the values handed to parseLength: numbers, values that are neither a
\* number nor a string, every string of up to MaxLengthLen characters of
\* LENGTH_ALPHABET, and the keywords and longer strings of the tests
LENGTH_VALUES ==
    {Num(0), Num(100), Num(-5), Rat(1, 2), NaN, Undefined, Null, Bool(TRUE), Obj(1)}
    \cup {Str(s) : s \in UNION {[1 .. k -> LENGTH_ALPHABET] : k \in 0 .. MaxLengthLen}}
    \cup {Str(s) : s \in {KW_AUTO, KW_NONE, KW_INITIAL, S_AUTO_UPPER, S_AUTO_MIXED,
                          S_NONE_PADDED, S_INITIAL_UPPER, S_INVALID, S_100EM,
                          S_1_2_3, S_100PX_PADDED, S_NEG_1_5PX, S_12_5PCT,
                          S_1_5PX_UPPER, S_1_5PX_MIXED, S_50PCT, S_RED}}

\* the state before a call of a parser on value (and, for parseStyleValue,
\* key)
ParserInput(op, key, value) ==
    /\ instances = <<>>
    /\ elements = (CONTAINER :> [style |-> <<>>, classList |-> {}, children |-> <<>>,
                                 fields |-> [text |-> Str(<<>>), value |-> Undefined,
                                             label |-> Str(<<>>)]])
    /\ listeners = (CONTAINER :> EmptyBag)
    /\ last = Call(op, value, key, 0, "", FALSE, <<>>)
    /\ roots = <<>>
    /\ reconciler = Reconciler
    /\ currentUpdatePriority = DefaultEventPriority

\* the parser returned r, or threw
Parsed(op, r) ==
    /\ last' = [last EXCEPT !.op = op, !.c = r, !.threw = IsThrow(r)]
    /\ UNCHANGED <<instances, elements, listeners, roots, reconciler,
                   currentUpdatePriority>>

InitLength == \E value \in LENGTH_VALUES : ParserInput("lengthInput", "", value)

ParseLength ==
    /\ last.op = "lengthInput"
    /\ Parsed("parseLength", parseLength(last.a))

(***************************************************************************)
(* parseStyleValue on keys of every class                                  *)
(***************************************************************************)
S_100PX == <<"1","0","0","p","x">>
S_HEX_FFF == <<"#","f","f","f">>
S_RGB_RED == <<"r","g","b","(","2","5","5",","," ","0",","," ","0",")">>

\* length, color, plain-number and enumerated keys, and keys of no class
VALUE_KEYS == {"width", "paddingTop", "fontSize", "color", "backgroundColor",
               "borderTopColor", "opacity", "flexGrow", "display",
               "flexDirection", "unknownProp", "constructor"}

\* the values of the style parser's tests, a Color object, and values no
\* parser accepts
VALUE_VALUES ==
    {Undefined, Null, Num(0), Num(100), Rat(1, 2), Bool(TRUE),
     Color(Num(1), Num(0), Num(0), Num(1))} \cup
    {Str(s) : s \in {<<>>, S_100PX, S_50PCT, KW_AUTO, S_AUTO_UPPER, S_INVALID,
                     S_1_2_3, S_100EM, S_RED, S_HEX_FFF, S_RGB_RED, S_FLEX,
                     S_CONSTRUCTOR}}

InitStyleValue ==
    \E key \in VALUE_KEYS, value \in VALUE_VALUES :
        ParserInput("styleValueInput", key, value)

ParseStyleValue ==
    /\ last.op = "styleValueInput"
    /\ Parsed("parseStyleValue", parseStyleValue(last.b, last.a))

(***************************************************************************)
(* parseColor on hex strings, rgb() expressions, names and other values    *)
(***************************************************************************)
\* two hexadecimal digits, a character that is none, and a sign
HEX_ALPHABET == {"0", "f", "g", "-"}

HEX_STRINGS ==
    {<<"#">> \o s : s \in UNION {[1 .. k -> HEX_ALPHABET] : k \in 0 .. MaxHexLen}}
    \cup {<<"#">> \o s :
            s \in UNION {[1 .. k -> {"0", "f"}] : k \in 7 .. MaxLongHexLen}}
    \cup {<<"#","F","F","F">>, <<"#","F","F","0","0","0","0">>,
          <<"#","3","4","9","8","d","b">>, <<"#","f","f","f","8">>,
          <<"#","f","f","0","0","0","0","8","0">>, <<" ","#","0","8","f"," ">>}

RGB_CHANNELS == {<<"0">>, <<"1","2","8">>, <<"2","5","5">>, <<"3","0","0">>}
PERCENT_CHANNELS == {<<"0">>, <<"5","0">>, <<"1","0","0">>, <<"1","5","0">>}
\* no alpha, alpha within [0,1] and above 1
ALPHAS == {<<>>, <<"0",".","5">>, <<"2">>}
RGB_NAMES == {<<"r","g","b">>, <<"r","g","b","a">>}
\* the opening bracket, the comma and the closing bracket, without and with
\* white space
RGB_SPACINGS == {<< <<"(">>, <<",">>, <<")">> >>,
                 << <<"("," ">>, <<" ",","," ">>, <<" ",")">> >>}

RgbString(name, sp, c, suf, alpha) ==
    name \o sp[1] \o c[1] \o suf \o sp[2] \o c[2] \o suf \o sp[2] \o c[3] \o suf
         \o (IF alpha = <<>> THEN <<>> ELSE sp[2] \o alpha) \o sp[3]

\* rgb() and rgba() expressions of three integers or three percentages and
\* an optional alpha
RgbStrings(alphas) ==
    {RgbString(name, sp, c, <<>>, alpha) :
        name \in RGB_NAMES, sp \in RGB_SPACINGS,
        c \in [1 .. 3 -> RGB_CHANNELS], alpha \in alphas}
    \cup {RgbString(name, sp, c, <<"%">>, alpha) :
        name \in RGB_NAMES, sp \in RGB_SPACINGS,
        c \in [1 .. 3 -> PERCENT_CHANNELS], alpha \in alphas}

RGB_STRINGS == RgbStrings(ALPHAS)

\* expressions that miss a channel, a bracket or a digit, or mix the forms
RGB_MALFORMED == {
    <<"r","g","b","(","2","5","5",",","0",")">>,
    <<"r","g","b","(","2","5","5",",","0",",","0">>,
    <<"r","g","b","(","-","1",",","0",",","0",")">>,
    <<"r","g","b","(","1",".","5",",","0",",","0",")">>,
    <<"r","g","b","(","5","0","%",",","0",",","0",")">>,
    <<"r","g","b","(",")">>,
    <<"r","g","b","a","(","0",",","0",",","0",",",".",")">>,
    <<"r","g","b","(",".","%",",","0","%",",","0","%",")">>
}

NAME_STRINGS ==
    {NAMED_COLORS[i][1] : i \in DOMAIN NAMED_COLORS}
    \cup {<<"R","E","D">>, <<"R","e","d">>, <<" ","r","e","d"," ">>,
          <<"R","G","B","(","2","5","5",",","0",",","0",")">>}
    \cup {<<>>, <<"n","o","t","a","c","o","l","o","r">>, <<"r","e","d","d">>,
          <<"r","e">>, S_CONSTRUCTOR, <<"C","o","n","s","t","r","u","c","t","o","r">>,
          <<"_","_","p","r","o","t","o","_","_">>,
          <<"t","o","S","t","r","i","n","g">>, <<"v","a","l","u","e","O","f">>}

\* the values handed to parseColor
COLOR_VALUES ==
    {Undefined, Null, Num(0), Num(255), Bool(TRUE),
     Color(Num(1), Num(0), Num(0), Num(1))}
    \cup {Str(s) : s \in HEX_STRINGS \cup RGB_STRINGS \cup RGB_MALFORMED
                          \cup NAME_STRINGS}

InitColor == \E value \in COLOR_VALUES : ParserInput("colorInput", "", value)

ParseColor ==
    /\ last.op = "colorInput"
    /\ Parsed("parseColor", parseColor(last.a))

(***************************************************************************)
(* Actions: the update priority                                            *)
(***************************************************************************)
\* the priorities the reconciler passes: its event priorities and 0, the
\* absence of one
PRIORITIES == {0, DiscreteEventPriority, ContinuousEventPriority,
               DefaultEventPriority, IdleEventPriority}

\* the props of the updates between the priority hooks: none, and event
\* handlers
PRIORITY_REFS == {1} \cup TREE_REFS

SetCurrentUpdatePriority ==
    \E priority \in PRIORITIES :
        /\ currentUpdatePriority' =
              setCurrentUpdatePriority(currentUpdatePriority, priority)
        /\ last' = Call("setCurrentUpdatePriority", priority, 0, 0, "", FALSE, <<>>)
        /\ UNCHANGED <<instances, elements, listeners, roots, reconciler>>

GetCurrentUpdatePriority ==
    /\ last' = Call("getCurrentUpdatePriority", 0, 0,
                    getCurrentUpdatePriority(currentUpdatePriority), "", FALSE, <<>>)
    /\ UNCHANGED <<instances, elements, listeners, roots, reconciler,
                   currentUpdatePriority>>

ResolveUpdatePriority ==
    /\ last' = Call("resolveUpdatePriority", 0, 0,
                    resolveUpdatePriority(currentUpdatePriority), "", FALSE, <<>>)
    /\ UNCHANGED <<instances, elements, listeners, roots, reconciler,
                   currentUpdatePriority>>

(***************************************************************************)
(* screen.tsx: breakpoints of the viewport                                 *)
(***************************************************************************)
\* Tailwind v3 defaults
BREAKPOINTS == [sm |-> 640, md |-> 768, lg |-> 1024, xl |-> 1280, xxl |-> 1536]

\* the class each breakpoint puts on the root; "2xl" is a name TLA+ cannot
\* use for a field
BREAKPOINT_CLASS ==
    [sm |-> <<"s","m">>, md |-> <<"m","d">>, lg |-> <<"l","g">>,
     xl |-> <<"x","l">>, xxl |-> <<"2","x","l">>]

\* width >= threshold on JavaScript numbers: false for NaN
GreaterEq(width, threshold) ==
    /\ ~IsNaN(width)
    /\ width.n >= threshold * width.d

\* width > threshold
Greater(width, threshold) ==
    /\ ~IsNaN(width)
    /\ width.n > threshold * width.d

\* the screen value of the flags
screenOf(width, height, isSm, isMd, isLg, isXl, is2xl) ==
    [width |-> width, height |-> height,
     breakpoint |-> IF is2xl THEN "xxl" ELSE IF isXl THEN "xl"
                    ELSE IF isLg THEN "lg" ELSE IF isMd THEN "md"
                    ELSE IF isSm THEN "sm" ELSE "base",
     isSm |-> isSm, isMd |-> isMd, isLg |-> isLg, isXl |-> isXl, is2xl |-> is2xl]

\* calculateBreakpoints with > in place of >=
calculateBreakpointsStrict(width, height) ==
    screenOf(width, height,
             Greater(width, BREAKPOINTS.sm), Greater(width, BREAKPOINTS.md),
             Greater(width, BREAKPOINTS.lg), Greater(width, BREAKPOINTS.xl),
             Greater(width, BREAKPOINTS.xxl))

calculateBreakpoints(width, height) ==
    screenOf(width, height,
             GreaterEq(width, BREAKPOINTS.sm), GreaterEq(width, BREAKPOINTS.md),
             GreaterEq(width, BREAKPOINTS.lg), GreaterEq(width, BREAKPOINTS.xl),
             GreaterEq(width, BREAKPOINTS.xxl))

\* the flags of a screen value in the order applyBreakpointClasses tests them
screenFlags(screen) ==
    << <<"sm", screen.isSm>>, <<"md", screen.isMd>>, <<"lg", screen.isLg>>,
       <<"xl", screen.isXl>>, <<"xxl", screen.is2xl>> >>

\* five RemoveFromClassList calls, then AddToClassList for every flag set
applyBreakpointClasses(classList, node, screen) ==
    [classList |->
        (classList \ Range(BREAKPOINT_CLASS))
        \cup {BREAKPOINT_CLASS[f[1]] : f \in {g \in Range(screenFlags(screen)) : g[2]}},
     calls |->
        [j \in 1 .. 5 |->
            ClassCall("RemoveFromClassList", node,
                      BREAKPOINT_CLASS[screenFlags(screen)[j][1]])]
        \o SelectSeq([j \in 1 .. 5 |->
                         IF screenFlags(screen)[j][2]
                         THEN ClassCall("AddToClassList", node,
                                        BREAKPOINT_CLASS[screenFlags(screen)[j][1]])
                         ELSE Null],
                     LAMBDA c : c # Null)]

\* the distance, in half pixels, the widths of SpecScreen go to either side
\* of a threshold
WidthSpan == 10

\* viewport widths: whole and half pixels around every threshold, zero, a
\* negative width and the NaN of a node that has no layout yet
WIDTHS ==
    {Rat(2 * BREAKPOINTS[b] + k, 2) :
        b \in DOMAIN BREAKPOINTS, k \in (0 - WidthSpan) .. WidthSpan}
    \cup {Num(0), Num(-1), NaN}

HEIGHTS == {Num(600)}

\* __root.resolvedStyle?.width || 0
OrZero(v) == IF Truthy(v) THEN v ELSE Num(0)

\* ScreenProvider has rendered: useState holds the screen of the size the
\* root resolved to; the root carries the classes of an earlier provider
InitScreen ==
    /\ instances = <<>>
    /\ \E width \in WIDTHS, height \in HEIGHTS, stale \in {Num(0), Num(1536)} :
          /\ last = Call("useState", OrZero(width), OrZero(height),
                         calculateBreakpoints(OrZero(width), OrZero(height)),
                         "", FALSE, <<>>)
          /\ elements = (CONTAINER :>
                [style |-> <<>>,
                 classList |-> applyBreakpointClasses({<<"a">>}, CONTAINER,
                                   calculateBreakpoints(stale, height)).classList,
                 children |-> <<>>,
                 fields |-> [text |-> Str(<<>>), value |-> Undefined,
                             label |-> Str(<<>>)]])
    /\ listeners = (CONTAINER :> EmptyBag)
    /\ roots = <<>>
    /\ reconciler = Reconciler
    /\ currentUpdatePriority = DefaultEventPriority

\* op applied the classes of screen to the root
ScreenApplied(op, screen, r) ==
    /\ elements' = [elements EXCEPT ![CONTAINER].classList = r.classList]
    /\ last' = Call(op, screen.width, screen.height, screen, "", FALSE, r.calls)
    /\ UNCHANGED <<instances, roots, reconciler, currentUpdatePriority>>

\* the effect of ScreenProvider on mount: the classes of the initial screen,
\* and the viewportchange listener
ScreenEffect ==
    /\ last.op = "useState"
    /\ ScreenApplied("useEffect", last.c,
                     applyBreakpointClasses(elements[CONTAINER].classList,
                                            CONTAINER, last.c))
    /\ listeners' = [listeners EXCEPT ![CONTAINER] =
                        addEventListener(@, "viewportchange", Fn("handleViewportChange"))]

\* handleViewportChange(evt)
ViewportChange ==
    /\ last.op # "useState"
    /\ \E width \in WIDTHS, height \in HEIGHTS :
          ScreenApplied("viewportchange", calculateBreakpoints(width, height),
                        applyBreakpointClasses(elements[CONTAINER].classList,
                            CONTAINER, calculateBreakpoints(width, height)))
    /\ UNCHANGED listeners

(***************************************************************************)
(* Actions: render, unmount and the reconciler's work                      *)
(***************************************************************************)
\* a second container, so that two trees can be mounted
OTHER_CONTAINER == -1

CONTAINERS == {CONTAINER, OTHER_CONTAINER}

\* the elements handed to render: <ojs-button {...PROPS_TABLE[ref]} /> for
\* props whose application does not throw
RENDER_TYPE == "ojs-button"
RENDER_REFS == {2, 3}

InitRender ==
    /\ instances = <<>>
    /\ elements = [c \in CONTAINERS |->
                      [style |-> <<>>, classList |-> {}, children |-> <<>>,
                       fields |-> [text |-> Str(<<>>), value |-> Undefined,
                                   label |-> Str(<<>>)]]]
    /\ listeners = [c \in CONTAINERS |-> EmptyBag]
    /\ last = Call("init", 0, 0, 0, "", FALSE, <<>>)
    /\ roots = <<>>
    /\ reconciler = Reconciler
    /\ currentUpdatePriority = DefaultEventPriority

\* render returned r
Rendered(container, element, r) ==
    /\ Len(r.reconciler.fibers) <= MaxRoots
    /\ roots' = r.roots
    /\ reconciler' = r.reconciler
    /\ last' = Call("render", container, element, 0, "", FALSE, r.calls)
    /\ UNCHANGED <<instances, elements, listeners, currentUpdatePriority>>

\* render(element, container); it is called between commits, never inside one
RenderOf(containers, refs) ==
    \E container \in containers, element \in refs :
        /\ reconciler.work = <<>>
        /\ Rendered(container, element, render(roots, reconciler, element, container))

Render == RenderOf(CONTAINERS, RENDER_REFS)

\* unmount returned r
Unmounted(container, r) ==
    /\ roots' = r.roots
    /\ reconciler' = r.reconciler
    /\ last' = Call("unmount", container, 0, 0, "", FALSE, r.calls)
    /\ UNCHANGED <<instances, elements, listeners, currentUpdatePriority>>

UnmountOf(containers) ==
    \E container \in containers :
        /\ reconciler.work = <<>>
        /\ Unmounted(container, unmount(roots, reconciler, container))

Unmount == UnmountOf(CONTAINERS)

WorkItem(op, id, element) == [op |-> op, root |-> id, element |-> element]

\* hostWork that requests nothing for a null tree
hostWorkNoRemoval(id, f) ==
    IF f.update[1] = NULL_ELEMENT
    THEN <<>>
    ELSE IF f.child = 0
    THEN <<WorkItem("createInstance", id, f.update[1]),
           WorkItem("clearContainer", id, f.update[1]),
           WorkItem("appendChildToContainer", id, f.update[1])>>
    ELSE IF f.update[1] # f.props
    THEN <<WorkItem("commitUpdate", id, f.update[1])>>
    ELSE <<>>

\* the host operations the reconciler requests to bring root id, whose fiber
\* is f, to its pending element: a first mount creates the instance, clears
\* the container and appends; a null tree removes the mounted instance
hostWork(id, f) ==
    IF f.update[1] = NULL_ELEMENT
    THEN IF f.child # 0
         THEN <<WorkItem("removeChildFromContainer", id, NULL_ELEMENT)>>
         ELSE <<WorkItem("clearContainer", id, NULL_ELEMENT)>>
    ELSE IF f.child = 0
    THEN <<WorkItem("createInstance", id, f.update[1]),
           WorkItem("clearContainer", id, f.update[1]),
           WorkItem("appendChildToContainer", id, f.update[1])>>
    ELSE IF f.update[1] # f.props
    THEN <<WorkItem("commitUpdate", id, f.update[1])>>
    ELSE <<>>

\* the scheduled task (flushSyncWork, or the microtask) takes the first
\* scheduled root and works out its commit
PerformWork ==
    /\ reconciler.work = <<>>
    /\ reconciler.schedule # <<>>
    /\ reconciler' =
          [reconciler EXCEPT
              !.schedule = Tail(@),
              !.fibers[Head(reconciler.schedule)].update = <<>>,
              !.work = hostWork(Head(reconciler.schedule),
                                reconciler.fibers[Head(reconciler.schedule)])]
    /\ last' = Call("performWork", Head(reconciler.schedule),
                    reconciler.fibers[Head(reconciler.schedule)].update[1],
                    0, "", FALSE, <<>>)
    /\ UNCHANGED <<instances, elements, listeners, roots, currentUpdatePriority>>

\* the next host operation of the running commit is op, on fiber f of root id
Requested(op) ==
    /\ reconciler.work # <<>>
    /\ Head(reconciler.work).op = op

WorkCreateInstance ==
    /\ Requested("createInstance")
    /\ Created(RENDER_TYPE, Head(reconciler.work).element, Len(instances) + 1,
               createInstance(RENDER_TYPE, Head(reconciler.work).element,
                              Len(instances) + 1))
    /\ reconciler' =
          [reconciler EXCEPT
              !.work = Tail(@),
              !.fibers[Head(reconciler.work).root].child = Len(instances) + 1,
              !.fibers[Head(reconciler.work).root].props = Head(reconciler.work).element]
    /\ UNCHANGED <<roots, currentUpdatePriority>>

WorkClearContainer ==
    /\ Requested("clearContainer")
    /\ Cleared(reconciler.fibers[Head(reconciler.work).root].container)
    /\ reconciler' = [reconciler EXCEPT !.work = Tail(@)]
    /\ UNCHANGED <<roots, currentUpdatePriority>>

WorkAppendChildToContainer ==
    /\ Requested("appendChildToContainer")
    /\ AddTo("appendChildToContainer",
             reconciler.fibers[Head(reconciler.work).root].container,
             reconciler.fibers[Head(reconciler.work).root].container,
             reconciler.fibers[Head(reconciler.work).root].child)
    /\ reconciler' = [reconciler EXCEPT !.work = Tail(@)]
    /\ UNCHANGED <<roots, currentUpdatePriority>>

WorkRemoveChildFromContainer ==
    /\ Requested("removeChildFromContainer")
    /\ RemoveFrom("removeChildFromContainer",
                  reconciler.fibers[Head(reconciler.work).root].container,
                  reconciler.fibers[Head(reconciler.work).root].container,
                  reconciler.fibers[Head(reconciler.work).root].child)
    /\ reconciler' =
          [reconciler EXCEPT !.work = Tail(@),
                             !.fibers[Head(reconciler.work).root].child = 0]
    /\ UNCHANGED <<roots, currentUpdatePriority>>

WorkCommitUpdate ==
    /\ Requested("commitUpdate")
    /\ LET f == reconciler.fibers[Head(reconciler.work).root]
       IN  Committed(f.child, instances[f.child].element, f.props,
                     Head(reconciler.work).element,
                     updateInstance(instances[f.child],
                                    elements[instances[f.child].element],
                                    listeners[instances[f.child].element],
                                    f.props, Head(reconciler.work).element))
    /\ reconciler' =
          [reconciler EXCEPT
              !.work = Tail(@),
              !.fibers[Head(reconciler.work).root].props = Head(reconciler.work).element]
    /\ UNCHANGED <<roots, currentUpdatePriority>>

\* the reconciler runs: a scheduled root is taken up or the running commit
\* issues its next host operation
ReconcilerStep ==
    \/ PerformWork
    \/ WorkCreateInstance
    \/ WorkClearContainer
    \/ WorkAppendChildToContainer
    \/ WorkRemoveChildFromContainer
    \/ WorkCommitUpdate

(***************************************************************************)
(* Actions: render with its synchronous flush                              *)
(***************************************************************************)
\* the adapter's state and the reconciler's while a flush runs; threw tells
\* that a host operation raised
Flushing(rec) ==
    [instances |-> instances, elements |-> elements, listeners |-> listeners,
     reconciler |-> rec, threw |-> FALSE]

\* createInstance returned r for the root of item, or threw
ranCreate(s, item, node, r) ==
    IF r.threw THEN [s EXCEPT !.threw = TRUE]
    ELSE [s EXCEPT !.instances = Append(@, r.instance),
                   !.elements = (node :> r.el) @@ @,
                   !.listeners = (node :> r.lis) @@ @,
                   !.reconciler.fibers[item.root].child = node,
                   !.reconciler.fibers[item.root].props = item.element]

\* commitUpdate ran updateInstance with result r on instance i
ranUpdate(s, item, i, node, r) ==
    [s EXCEPT !.instances[i] = r.instance,
              !.elements[node] = r.el,
              !.listeners[node] = r.lis,
              !.threw = r.threw,
              !.reconciler.fibers[item.root].props =
                  IF r.threw THEN @ ELSE item.element]

\* one host operation of a commit, on fiber f
runOp(s, item, f) ==
    IF item.op = "createInstance"
    THEN ranCreate(s, item, Len(s.instances) + 1,
                   createInstance(RENDER_TYPE, item.element, Len(s.instances) + 1))
    ELSE IF item.op = "clearContainer"
    THEN [s EXCEPT !.elements[f.container].children = <<>>]
    ELSE IF item.op = "appendChildToContainer"
    THEN [s EXCEPT !.elements[f.container].children =
                       Add(@, s.instances[f.child].element)]
    ELSE IF item.op = "removeChildFromContainer"
    THEN [s EXCEPT !.listeners[s.instances[f.child].element] = EmptyBag,
                   !.elements[f.container].children =
                       Remove(@, s.instances[f.child].element),
                   !.reconciler.fibers[item.root].child = 0]
    ELSE ranUpdate(s, item, f.child, s.instances[f.child].element,
                   updateInstance(s.instances[f.child],
                                  s.elements[s.instances[f.child].element],
                                  s.listeners[s.instances[f.child].element],
                                  f.props, item.element))

\* the host operations of one commit in order; an exception ends the commit
RECURSIVE runWork(_, _)
runWork(s, work) ==
    IF work = <<>> \/ s.threw THEN s
    ELSE runWork(runOp(s, Head(work), s.reconciler.fibers[Head(work).root]),
                 Tail(work))

\* the first scheduled root is taken up
takeRoot(s) ==
    [s EXCEPT !.reconciler.schedule = Tail(@),
              !.reconciler.fibers[Head(s.reconciler.schedule)].update = <<>>]

\* reconciler.flushSyncWork(): every scheduled root is committed, in
\* scheduling order; an exception of a host operation leaves the flush
RECURSIVE flushSyncWork(_)
flushSyncWork(s) ==
    IF s.threw \/ s.reconciler.schedule = <<>> THEN s
    ELSE flushSyncWork(
            runWork(takeRoot(s),
                    hostWork(Head(s.reconciler.schedule),
                             s.reconciler.fibers[Head(s.reconciler.schedule)])))

\* what the reconciler exports: flushSyncWork, flushSync only, or neither
FLUSH_METHODS == {"flushSyncWork", "flushSync", "none"}

\* the flush render attempts
flushOf(method, s) == IF method = "none" THEN s ELSE flushSyncWork(s)

\* the flush without the try block around it: the exception reaches the
\* caller of render
tryFlushUncaught(method, threw) ==
    IF method = "none"
    THEN [threw |-> FALSE, log |-> "no sync flush method available"]
    ELSE IF threw THEN [threw |-> TRUE, log |-> ""]
    ELSE [threw |-> FALSE, log |-> "completed"]

\* try { flush } catch (e) { console.log(...) }: what render logs, and
\* whether it throws
tryFlush(method, threw) ==
    IF method = "none"
    THEN [threw |-> FALSE, log |-> "no sync flush method available"]
    ELSE IF threw THEN [threw |-> FALSE, log |-> "sync flush failed"]
    ELSE [threw |-> FALSE, log |-> "completed"]

\* the elements of SpecFlush: two whose props apply and one whose style
\* makes createInstance and commitUpdate throw
FLUSH_REFS == {2, 3, 6}

\* op left the flush, which ended in f, with outcome t
Flushed(op, container, element, method, rts, f, t) ==
    /\ instances' = f.instances
    /\ elements' = f.elements
    /\ listeners' = f.listeners
    /\ roots' = rts
    /\ reconciler' = [f.reconciler EXCEPT !.work = <<>>]
    /\ last' = Call(op, container, element, t.log, method, t.threw, <<>>)
    /\ UNCHANGED currentUpdatePriority

\* render up to the flush returned r; then the flush
RenderFlushed(container, element, method, r, f) ==
    /\ Len(r.reconciler.fibers) <= MaxRoots
    /\ Flushed("render", container, element, method, r.roots, f,
               tryFlush(method, f.threw))

\* render(element, container), the flush included
RenderSync ==
    \E container \in {CONTAINER}, element \in FLUSH_REFS, method \in FLUSH_METHODS :
        RenderFlushed(container, element, method,
                      render(roots, reconciler, element, container),
                      flushOf(method,
                              Flushing(render(roots, reconciler, element,
                                              container).reconciler)))

\* the microtask the reconciler queued commits what no flush has committed
Microtask ==
    /\ reconciler.schedule # <<>>
    /\ Flushed("microtask", 0, 0, "", roots, flushSyncWork(Flushing(reconciler)),
               [threw |-> flushSyncWork(Flushing(reconciler)).threw, log |-> ""])

(***************************************************************************)
(* Specifications                                                          *)
(***************************************************************************)
Structural ==
    \/ AppendInitialChild
    \/ AppendChild
    \/ AppendChildToContainer
    \/ InsertBefore
    \/ InsertInContainerBefore
    \/ RemoveChild
    \/ RemoveChildFromContainer
    \/ ClearContainer

\* the life of one instance under the container
Next ==
    \/ CreateInstance(1, PropsRefs)
    \/ CommitUpdate
    \/ AppendChildToContainer
    \/ RemoveChildFromContainer
    \/ ClearContainer
    \/ HideInstance
    \/ UnhideInstance

Spec == Init /\ [][Next]_vars

\* the structural operations on instances that carry event handlers only
NextTree ==
    \/ CreateInstance(TreeInst, TREE_REFS)
    \/ Structural

SpecTree == Init /\ [][NextTree]_vars

\* createInstance and commitUpdate alone on one instance
NextProps ==
    \/ CreateInstance(1, PropsRefs)
    \/ CommitUpdate

SpecProps == Init /\ [][NextProps]_vars

\* updateClassNames on every pair of className props
NextClass == UpdateClassNames

SpecClass == InitClass /\ [][NextClass]_vars

\* createInstance alone, on every element type of CREATE_TYPES
NextCreate == CreateAnyInstance

SpecCreate == Init /\ [][NextCreate]_vars

\* render and unmount on two containers, and the reconciler's commits
NextRender ==
    \/ Render
    \/ Unmount
    \/ ReconcilerStep

SpecRender == InitRender /\ [][NextRender]_vars

\* scheduled work is always taken up, by flushSyncWork inside render or by
\* the microtask the reconciler queued, and a commit, which is one
\* synchronous run of host operations, always reaches its end
SpecRenderLive ==
    SpecRender /\ WF_vars(PerformWork) /\ []<>(reconciler.work = <<>>)

\* host and text instances, hidden and shown again
NextVisible ==
    \/ CreateInstance(MaxCreated, PropsRefs)
    \/ CreateTextInstance
    \/ HideInstance
    \/ HideTextInstance
    \/ UnhideInstance
    \/ UnhideTextInstance

SpecVisible == Init /\ [][NextVisible]_vars

\* applyStyle, then getExpandedStyleKeys, on every style object of
\* STYLE_OBJECTS
NextStyle ==
    \/ ApplyStyle
    \/ GetExpandedStyleKeys

SpecStyle == InitStyle /\ [][NextStyle]_vars

\* parseLength on every value of LENGTH_VALUES
NextLength == ParseLength

SpecLength == InitLength /\ [][NextLength]_vars

\* parseStyleValue on every key of VALUE_KEYS and value of VALUE_VALUES
NextStyleValue == ParseStyleValue

SpecStyleValue == InitStyleValue /\ [][NextStyleValue]_vars

\* parseColor on every value of COLOR_VALUES
NextColor == ParseColor

SpecColor == InitColor /\ [][NextColor]_vars

\* the priority hooks between the operations on up to MaxCreated instances
\* and the calls of render and unmount on one container
NextPriority ==
    \/ SetCurrentUpdatePriority
    \/ GetCurrentUpdatePriority
    \/ ResolveUpdatePriority
    \/ CreateInstance(MaxCreated, TREE_REFS)
    \/ CommitUpdateOf(PRIORITY_REFS)
    \/ AppendChildToContainer
    \/ InsertInContainerBefore
    \/ RemoveChildFromContainer
    \/ HideInstance
    \/ UnhideInstance
    \/ RenderOf({CONTAINER}, TREE_REFS)
    \/ UnmountOf({CONTAINER})

SpecPriority == Init /\ [][NextPriority]_vars

\* element types with and without fields of their own, and props that
\* define all, some and none of the type-specific props
FIELD_TYPES == {"ojs-button", "ojs-textfield", "ojs-scrollview", "ojs-listview"}
FIELD_REFS == {1, 3, 8, 9}

\* one instance of each type under every sequence of updates
NextFields ==
    \/ CreateInstanceOf(1, FIELD_TYPES, FIELD_REFS)
    \/ CommitUpdateOf(FIELD_REFS)

SpecFields == Init /\ [][NextFields]_vars

\* a node created with one className and updated with any sequence of others
NextClassName == ClassNameCommitted

SpecClassName == InitClassName /\ [][NextClassName]_vars

\* ScreenProvider mounts and the viewport changes any number of times
NextScreen ==
    \/ ScreenEffect
    \/ ViewportChange

SpecScreen == InitScreen /\ [][NextScreen]_vars

\* render with its flush, unmount and the microtask on one container
NextFlush ==
    \/ RenderSync
    \/ UnmountOf({CONTAINER})
    \/ Microtask

SpecFlush == InitRender /\ [][NextFlush]_vars

(***************************************************************************)
(* Properties                                                              *)
(***************************************************************************)
\* the longhands a style key stands for
LonghandsOf(key) ==
    IF key \in DOMAIN STYLE_SHORTHANDS THEN Range(STYLE_SHORTHANDS[key]) ELSE {key}

\* the entries of a style prop whose value is not undefined
DefinedEntries(style) ==
    IF style = Undefined THEN {}
    ELSE {j \in DOMAIN STYLE_TABLE[style.ref] : STYLE_TABLE[style.ref][j][2] # Undefined}

\* the expansion of a style prop: its defined keys, shorthands replaced
ExpansionOf(style) ==
    UNION {LonghandsOf(STYLE_TABLE[style.ref][j][1]) : j \in DefinedEntries(style)}

\* the style prop of the props an instance holds
CurrentStyle(i) == Get(PROPS_TABLE[instances[i].props], "style")

\* C1: after createInstance and after every commitUpdate, appliedStyleKeys is
\* exactly the expansion of the current props.style (undefined-valued keys
\* dropped, each shorthand replaced by its four longhands), and is empty when
\* props.style is absent.
C1_AppliedStyleKeys ==
    \A i \in DOMAIN instances :
        LET keys == instances[i].appliedStyleKeys
        IN  /\ Range(keys) = ExpansionOf(CurrentStyle(i))
            /\ Len(keys) = Cardinality(Range(keys))
            /\ CurrentStyle(i) = Undefined => keys = <<>>

\* a commitUpdate replaced the style object by one with a shorthand and an
\* undefined-valued key
C1_Witness ==
    /\ last.op = "commitUpdate" /\ ~last.threw
    /\ Get(PROPS_TABLE[last.b], "style") # Get(PROPS_TABLE[last.c], "style")
    /\ Range(instances[last.a].appliedStyleKeys) =
           {"paddingTop", "paddingRight", "paddingBottom", "paddingLeft", "display"}
    /\ \E j \in DOMAIN STYLE_TABLE[CurrentStyle(last.a).ref] :
           STYLE_TABLE[CurrentStyle(last.a).ref][j] = <<"height", Undefined>>

\* the value the current style object gives longhand k: the last defined
\* entry that stands for k, parsed
ValueOf(style, k) ==
    LET es == STYLE_TABLE[style.ref]
        js == {j \in DefinedEntries(style) : k \in LonghandsOf(es[j][1])}
        j == CHOOSE x \in js : \A y \in js : y <= x
    IN  parseStyleValue(k, es[j][2])

\* C2: after any sequence of createInstance and commitUpdate calls, the last
\* of which returned, every key written on the node that is not in the
\* expansion of the current style object holds undefined, and every key of
\* the expansion holds the value parsed from the current style object.
C2_StyleSurface ==
    \A i \in DOMAIN instances :
        LET surface == elements[instances[i].element].style
            expansion == ExpansionOf(CurrentStyle(i))
        IN  last.threw \/
            /\ \A k \in DOMAIN surface \ expansion : surface[k] = Undefined
            /\ \A k \in expansion :
                   k \in DOMAIN surface /\ surface[k] = ValueOf(CurrentStyle(i), k)

\* a commitUpdate that cleared the four longhands of a removed shorthand
C2_Witness ==
    /\ last.op = "commitUpdate" /\ ~last.threw
    /\ \E i \in DOMAIN instances :
           /\ "paddingLeft" \notin ExpansionOf(CurrentStyle(i))
           /\ "paddingLeft" \in DOMAIN elements[instances[i].element].style

\* the native listeners of one event type on a node, with multiplicity
ListenersOf(node, eventType) ==
    LET ls == {l \in BagToSet(listeners[node]) : l.type = eventType}
    IN  [l \in ls |-> CopiesIn(l, listeners[node])]

\* C3: every entry (event type -> callback) of an instance's eventHandlers
\* corresponds to exactly one native listener for that event type, with that
\* callback, on the instance's node.
C3_HandlersAreListeners ==
    \A i \in DOMAIN instances :
        \A eventType \in DOMAIN instances[i].eventHandlers :
            ListenersOf(instances[i].element, eventType) =
                SetToBag({Listener(eventType, instances[i].eventHandlers[eventType])})

\* the listener calls a call issued for one event type, in order
ListenerCalls(calls, eventType) ==
    SelectSeq(calls, LAMBDA c : /\ c.api \in {"addEventListener", "removeEventListener"}
                                /\ c.type = eventType)

\* C4: a commitUpdate that changes an event prop from callback A to another
\* callback B issues exactly removeEventListener(A) then addEventListener(B)
\* for that event type and leaves B in eventHandlers; from A to absent it
\* issues exactly one removeEventListener and deletes the entry; when the new
\* prop is the registered callback, or both are absent, it issues no listener
\* call for that event type.
C4_EventDiff ==
    [][(last'.op = "commitUpdate" /\ ~last'.threw) =>
        LET i == last'.a
            node == instances[i].element
        IN  \A k \in DOMAIN EVENT_PROPS :
              LET eventType == EVENT_PROPS[k][2]
                  A == Get(PROPS_TABLE[instances[i].props], EVENT_PROPS[k][1])
                  B == Get(PROPS_TABLE[last'.c], EVENT_PROPS[k][1])
                  registered == Get(instances[i].eventHandlers, eventType)
                  issued == ListenerCalls(last'.calls, eventType)
                  handlers == instances'[i].eventHandlers
              IN  /\ (A # Undefined /\ B # Undefined /\ A # B) =>
                        /\ issued = <<EventCall("removeEventListener", node, eventType, A),
                                      EventCall("addEventListener", node, eventType, B)>>
                        /\ Get(handlers, eventType) = B
                  /\ (A # Undefined /\ B = Undefined) =>
                        /\ issued = <<EventCall("removeEventListener", node, eventType, A)>>
                        /\ eventType \notin DOMAIN handlers
                  /\ B = registered => issued = <<>>
    ]_vars

\* one commitUpdate swapped onClick from A to B, dropped onPointerDown
C4_Witness ==
    /\ last.op = "commitUpdate" /\ ~last.threw
    /\ ListenerCalls(last.calls, "click") =
           <<EventCall("removeEventListener", instances[last.a].element, "click", Fn("A")),
             EventCall("addEventListener", instances[last.a].element, "click", Fn("B"))>>
    /\ ListenerCalls(last.calls, "pointerdown") =
           <<EventCall("removeEventListener", instances[last.a].element, "pointerdown",
                       Fn("B"))>>
    /\ instances[last.a].eventHandlers = ("click" :> Fn("B"))

\* C5: removeChild and removeChildFromContainer call removeAllEventListeners
\* on the removed node before the native Remove, so the node has no native
\* listener when it is detached, however many handlers the instance holds.
C5_ListenersRemovedFirst ==
    last.op \in {"removeChild", "removeChildFromContainer"} =>
        LET node == instances[last.b].element
            parentNode == IF last.op = "removeChild" THEN instances[last.a].element
                          ELSE CONTAINER
        IN  /\ last.calls = <<[api |-> "removeAllEventListeners", node |-> node],
                              ChildCall("Remove", parentNode, node, -1)>>
            /\ listeners[node] = EmptyBag
            /\ node \notin Range(elements[parentNode].children)

\* an instance holding two handlers was removed from its parent instance
C5_Witness ==
    /\ last.op = "removeChild"
    /\ Cardinality(DOMAIN instances[last.b].eventHandlers) = 2
    /\ listeners[instances[last.b].element] = EmptyBag

APPEND_OPS == {"appendInitialChild", "appendChild", "appendChildToContainer"}
INSERT_OPS == {"insertBefore", "insertInContainerBefore"}

\* the native node a structural call acts on
ParentNodeOf(call) ==
    IF call.op \in {"appendChildToContainer", "insertInContainerBefore",
                    "removeChildFromContainer"}
    THEN CONTAINER
    ELSE instances[call.a].element

\* the sequence without every occurrence of x
Others(children, x) == SelectSeq(children, LAMBDA y : y # x)

\* C6: after insertBefore or insertInContainerBefore with beforeChild a child
\* of the parent, child sits immediately before beforeChild and the relative
\* order of the other children is unchanged, also when child was already a
\* child of that parent.
C6_InsertedBeforeSibling ==
    [][(last'.op \in INSERT_OPS) =>
        LET parentNode == ParentNodeOf(last')
            node == instances[last'.b].element
            before == instances[last'.c].element
            old == elements[parentNode].children
            new == elements'[parentNode].children
        IN  before \in Range(old) =>
              /\ \E k \in 1 .. Len(new) - 1 : new[k] = node /\ new[k + 1] = before
              /\ Others(new, node) = Others(old, node)
    ]_vars

\* C7: after appendInitialChild, appendChild or appendChildToContainer the
\* child's node is the last child of the parent or container, also when it
\* was already a child of that parent at an earlier position.
C7_AppendedLast ==
    last.op \in APPEND_OPS =>
        LET children == elements[ParentNodeOf(last)].children
        IN  children # <<>> /\ children[Len(children)] = instances[last.b].element

\* the parents whose child list holds the node
ParentsOf(node) == {p \in DOMAIN elements : node \in Range(elements[p].children)}

\* each node is in the child list of at most one parent, at most once
ExclusiveOwnership ==
    \A node \in DOMAIN elements :
        /\ Cardinality(ParentsOf(node)) <= 1
        /\ \A p \in DOMAIN elements :
               Cardinality({k \in DOMAIN elements[p].children :
                               elements[p].children[k] = node}) <= 1

\* C8 as stated: in every reachable state each native node is in the child
\* list of at most one parent or container, and at most once in that list.
C8_AlwaysExclusive == ExclusiveOwnership

\* C8 as amended: an append or insert whose child is detached, or is already
\* a child of the parent it is attached to, keeps every node in at most one
\* child list and at most once in it; removals and clearContainer always do.
C8_OwnershipPreserved ==
    [][(/\ ExclusiveOwnership
        /\ last'.op \in APPEND_OPS \cup INSERT_OPS =>
               ParentsOf(instances[last'.b].element) \subseteq {ParentNodeOf(last')})
       => ExclusiveOwnership'
    ]_vars

\* an insert placed a node before its sibling among two children of the
\* container, each node still owned once
C8_Witness ==
    /\ last.op = "insertInContainerBefore"
    /\ last.calls[2].api = "Insert"
    /\ Len(elements[CONTAINER].children) = 2
    /\ ExclusiveOwnership

\* the step is a commitUpdate whose oldProps and newProps are the props
\* object already committed to the instance
Reapplies ==
    /\ last'.op = "commitUpdate"
    /\ last'.b = last'.c
    /\ instances[last'.a].props = last'.c

DefinedFields(props) ==
    {f \in {"text", "value", "label"} : Get(props, f) # Undefined}

LeavesAs(i, node, r) ==
    /\ instances'[i] = r.instance
    /\ elements'[node] = r.el
    /\ listeners'[node] = r.lis

\* C10: for every commitUpdate whose style object or class string is
\* unchanged, in every reachable state, the node and the instance after the
\* update are what they would be had the style step and the class step been
\* executed unconditionally.
C10_ShortCircuitIsInvisible ==
    [][(/\ last'.op = "commitUpdate"
        /\ \/ Get(PROPS_TABLE[last'.b], "style") = Get(PROPS_TABLE[last'.c], "style")
           \/ Get(PROPS_TABLE[last'.b], "className")
                  = Get(PROPS_TABLE[last'.c], "className"))
       =>
        LeavesAs(last'.a, instances[last'.a].element,
                 updateSteps(instances[last'.a], elements[instances[last'.a].element],
                             listeners[instances[last'.a].element],
                             last'.b, last'.c, TRUE, TRUE))
    ]_vars

\* the maximal runs of characters outside WHITESPACE in a string
TokensOf(s) ==
    {SubSeq(s, i, j) : i \in 1 .. Len(s), j \in 1 .. Len(s)} \cap
    {SubSeq(s, i, j) : <<i, j>> \in
        {p \in (1 .. Len(s)) \X (1 .. Len(s)) :
            /\ p[1] <= p[2]
            /\ \A k \in p[1] .. p[2] : s[k] \notin WHITESPACE
            /\ (p[1] = 1 \/ s[p[1] - 1] \in WHITESPACE)
            /\ (p[2] = Len(s) \/ s[p[2] + 1] \in WHITESPACE)}}

\* the classes a className prop stands for
ClassesOf(className) ==
    IF className = Undefined THEN {}
    ELSE {escapeClassName(t) : t \in TokensOf(className.s)}

CountCalls(calls, api, cls) ==
    Cardinality({i \in DOMAIN calls : calls[i].api = api /\ calls[i].cls = cls})

\* C11: updateClassNames issues RemoveFromClassList exactly once for each
\* class of the old className that the new one lacks, AddToClassList exactly
\* once for each class of the new className that the old one lacks, and no
\* class-list call for any other class; the classes are the white-space
\* separated tokens, and an undefined className has none
C11_ClassDiffCalls ==
    last.op = "updateClassNames" =>
        LET O == ClassesOf(last.a)
            N == ClassesOf(last.b)
        IN  /\ \A i \in DOMAIN last.calls :
                  /\ last.calls[i].api \in {"RemoveFromClassList", "AddToClassList"}
                  /\ last.calls[i].cls \in O \cup N
            /\ \A c \in O \cup N :
                  /\ CountCalls(last.calls, "RemoveFromClassList", c)
                        = (IF c \in O \ N THEN 1 ELSE 0)
                  /\ CountCalls(last.calls, "AddToClassList", c)
                        = (IF c \in N \ O THEN 1 ELSE 0)

\* a call that removes a class, adds an escaped one and keeps a third
C11_Witness ==
    /\ last.op = "updateClassNames"
    /\ last.a = Str(<<"a", " ", "b">>)
    /\ last.b = Str(<<"b", " ", ":">>)
    /\ Len(last.calls) = 2
    /\ elements[CONTAINER].classList = {<<"b">>, <<"_", "c", "_">>}

\* C12: createInstance with a type tag that TYPE_MAP does not hold throws
\* before any native node is constructed, issues no native call and returns
\* no instance
C12_UnknownTypeThrows ==
    [][(last'.op = "createInstance" /\ last'.type \notin DOMAIN TYPE_MAP)
        => /\ last'.threw
           /\ last'.calls = <<>>
           /\ UNCHANGED <<instances, elements, listeners>>]_vars

\* createInstance('constructor', props) returned an instance
C12_Witness ==
    /\ last.op = "createInstance"
    /\ last.type = "constructor"
    /\ ~last.threw
    /\ instances[last.a].type = "constructor"

\* C13: when beforeChild is not a child of the parent, insertBefore and
\* insertInContainerBefore do not fail, issue no Insert call and leave the
\* child's node as the last child of the parent
C13_FallbackAppends ==
    [][(last'.op \in INSERT_OPS) =>
        LET parentNode == ParentNodeOf(last')
            node == instances[last'.b].element
            before == instances[last'.c].element
            old == elements[parentNode].children
            new == elements'[parentNode].children
        IN  before \notin Range(old) =>
              /\ ~last'.threw
              /\ \A k \in DOMAIN last'.calls : last'.calls[k].api # "Insert"
              /\ new # <<>> /\ new[Len(new)] = node
    ]_vars

\* the fallback ran on a child that already was a child of the parent and
\* has a later sibling
C13_Witness ==
    /\ last.op \in INSERT_OPS
    /\ last.calls[2].api = "Add"
    /\ LET children == elements[ParentNodeOf(last)].children
       IN  /\ instances[last.b].element \in Range(children)
           /\ children[Len(children)] # instances[last.b].element

\* C14: render on a container that has a root creates no root, updates that
\* root and leaves the root map as it is; render on a container without one
\* creates exactly one root; getRoot(container) changes only by the first
\* render on the container or by unmount; distinct containers have distinct
\* roots
C14_OneRootPerContainer ==
    [][/\ (last'.op = "render" /\ last'.a \in DOMAIN roots) =>
              /\ roots' = roots
              /\ Len(reconciler'.fibers) = Len(reconciler.fibers)
              /\ last'.calls = <<ReconcilerCall("updateContainer", roots[last'.a],
                                                last'.b)>>
              /\ reconciler'.fibers[roots[last'.a].id].update = <<last'.b>>
       /\ (last'.op = "render" /\ last'.a \notin DOMAIN roots) =>
              /\ Len(reconciler'.fibers) = Len(reconciler.fibers) + 1
              /\ getRoot(roots', last'.a) = Root(Len(reconciler'.fibers))
              /\ reconciler'.fibers[Len(reconciler'.fibers)].update = <<last'.b>>
       /\ \A c \in CONTAINERS :
              \/ last'.op = "unmount" /\ last'.a = c
              \/ last'.op = "render" /\ last'.a = c /\ c \notin DOMAIN roots
              \/ getRoot(roots', c) = getRoot(roots, c)
       /\ \A c \in DOMAIN roots', d \in DOMAIN roots' :
              /\ reconciler'.fibers[roots'[c].id].container = c
              /\ (c # d => roots'[c] # roots'[d])
    ]_vars

\* a render that found the root of its container while the other container
\* has a root of its own
C14_Witness ==
    /\ last.op = "render"
    /\ Len(last.calls) = 1
    /\ DOMAIN roots = CONTAINERS
    /\ Len(reconciler.fibers) = 2

\* C15: unmount on a container that has a root schedules a null-tree update
\* on that root and deletes the container from the root map, so that getRoot
\* is undefined and the next render on it creates a root that never existed
\* before; unmount on a container without a root issues no reconciler call
\* and changes nothing
C15_UnmountDropsRoot ==
    [][/\ (last'.op = "unmount" /\ last'.a \in DOMAIN roots) =>
              /\ last'.calls = <<ReconcilerCall("updateContainer", roots[last'.a],
                                                NULL_ELEMENT)>>
              /\ reconciler'.fibers[roots[last'.a].id].update = <<NULL_ELEMENT>>
              /\ roots[last'.a].id \in Range(reconciler'.schedule)
              /\ getRoot(roots', last'.a) = Undefined
              /\ \A c \in CONTAINERS \ {last'.a} :
                     getRoot(roots', c) = getRoot(roots, c)
       /\ (last'.op = "unmount" /\ last'.a \notin DOMAIN roots) =>
              /\ last'.calls = <<>>
              /\ ~last'.threw
              /\ UNCHANGED <<roots, reconciler, instances, elements, listeners>>
       /\ (last'.op = "render" /\ last'.a \notin DOMAIN roots) =>
              /\ getRoot(roots', last'.a).id \notin DOMAIN reconciler.fibers
              /\ last'.calls[1].api = "createContainer"
    ]_vars

\* a render on a container whose earlier root was unmounted
C15_Witness ==
    /\ last.op = "render"
    /\ Len(last.calls) = 2
    /\ \E id \in DOMAIN reconciler.fibers :
          /\ reconciler.fibers[id].container = last.a
          /\ Root(id) # roots[last.a]

HIDE_OPS == {"hideInstance", "hideTextInstance"}
UNHIDE_OPS == {"unhideInstance", "unhideTextInstance"}

\* C17: hideInstance and hideTextInstance write 'none', unhideInstance and
\* unhideTextInstance write '', to the display key of the instance's node
\* and to nothing else: every other style key, the class list, the fields
\* and children, every other node, the listeners and the instance records
\* stay as they are
C17_OnlyDisplayWritten ==
    [][(last'.op \in HIDE_OPS \cup UNHIDE_OPS) =>
        LET node == instances[last'.a].element
            value == IF last'.op \in HIDE_OPS THEN Str(<<"n", "o", "n", "e">>)
                     ELSE Str(<<>>)
            old == elements[node].style
            new == elements'[node].style
        IN  /\ last'.calls = <<StyleCall(node, "display", value)>>
            /\ new["display"] = value
            /\ DOMAIN new = DOMAIN old \cup {"display"}
            /\ \A k \in DOMAIN old \ {"display"} : new[k] = old[k]
            /\ elements'[node].classList = elements[node].classList
            /\ elements'[node].fields = elements[node].fields
            /\ elements'[node].children = elements[node].children
            /\ \A n \in DOMAIN elements \ {node} : elements'[n] = elements[n]
            /\ DOMAIN elements' = DOMAIN elements
            /\ UNCHANGED <<listeners, instances>>
    ]_vars

\* a styled instance with a class and a listener was hidden, next to a text
\* instance that was hidden and shown again
C17_Witness ==
    /\ last.op = "hideInstance"
    /\ Cardinality(DOMAIN elements[instances[last.a].element].style) > 2
    /\ elements[instances[last.a].element].classList # {}
    /\ listeners[instances[last.a].element] # EmptyBag
    /\ instances[last.a].appliedStyleKeys # <<>>
    /\ \E i \in DOMAIN instances :
          /\ instances[i].type = "text"
          /\ elements[instances[i].element].style = ("display" :> Str(<<>>))

\* C18: clearContainer issues exactly one native call, Clear on the
\* container, after which the container has no children; no listener is
\* deregistered and no instance record (eventHandlers, appliedStyleKeys,
\* props) changes, nor any other part of any node
C18_ClearIsOneCall ==
    [][(last'.op = "clearContainer") =>
        /\ last'.calls = <<[api |-> "Clear", node |-> last'.a]>>
        /\ elements'[last'.a].children = <<>>
        /\ UNCHANGED <<listeners, instances>>
        /\ \A i \in DOMAIN instances :
              /\ instances'[i].eventHandlers = instances[i].eventHandlers
              /\ instances'[i].appliedStyleKeys = instances[i].appliedStyleKeys
              /\ instances'[i].props = instances[i].props
        /\ \A n \in DOMAIN elements \ {last'.a} : elements'[n] = elements[n]
        /\ elements' = [elements EXCEPT ![last'.a].children = <<>>]
    ]_vars

\* clearContainer ran, and all the instances, none of which is a child of
\* the container any more, still have their handlers registered
C18_Witness ==
    /\ last.op = "clearContainer"
    /\ Len(instances) = TreeInst
    /\ \A i \in DOMAIN instances :
          /\ instances[i].eventHandlers # <<>>
          /\ listeners[instances[i].element] # EmptyBag
          /\ instances[i].element \notin Range(elements[CONTAINER].children)

\* C19: for every style object the key set getExpandedStyleKeys computes
\* equals the key set applyStyle returns on a fresh node
C19_ExpandedKeysAgree ==
    last.op = "getExpandedStyleKeys" =>
        /\ ~last.threw
        /\ ~last.b.threw
        /\ Range(last.b.keys) = Range(last.c)

\* getExpandedStyleKeys returned the keys of a style object on which
\* applyStyle threw
C19_Witness ==
    /\ last.op = "getExpandedStyleKeys"
    /\ last.threw
    /\ ~last.b.threw
    /\ Len(last.b.keys) = 5

\* the entries of a style object, none for undefined
EntriesOf(style) == IF style = Undefined THEN <<>> ELSE style.entries

\* the positions of the calls that write key
WritesOf(calls, key) == {i \in DOMAIN calls : calls[i].key = key}

\* C20: for each shorthand with a defined value applyStyle writes one parsed
\* value, that of the first longhand, to all four longhands, returns the
\* four longhands among the keys, and never writes the shorthand key
C20_ShorthandExpanded ==
    last.op = "applyStyle" =>
        \A e \in Range(EntriesOf(last.a)) :
            (e[1] \in DOMAIN STYLE_SHORTHANDS /\ e[2] # Undefined) =>
                /\ ~last.threw
                /\ WritesOf(last.calls, e[1]) = {}
                /\ e[1] \notin DOMAIN elements[CONTAINER].style
                /\ \A k \in Range(STYLE_SHORTHANDS[e[1]]) : k \in Range(last.c)
                /\ \E i \in 1 .. Len(last.calls) - 3 :
                      \A j \in 1 .. 4 :
                          last.calls[i + j - 1] =
                              StyleCall(CONTAINER, STYLE_SHORTHANDS[e[1]][j],
                                        parseStyleValue(STYLE_SHORTHANDS[e[1]][1],
                                                        e[2]))

\* applyStyle threw on a style object that gives a shorthand a value
C20_Witness ==
    /\ last.op = "applyStyle"
    /\ last.threw
    /\ last.a = StyleLit(<< <<"borderColor", Str(S_CONSTRUCTOR)>> >>)
    /\ last.calls = <<>>

\* a value the length or the color parser of key's class turns down
FailsParsing(key, value) ==
    \/ key \in LENGTH_PROPERTIES /\ value.t = "string" /\ parseLength(value) = Null
    \/ key \in COLOR_PROPERTIES /\ value.t = "string" /\ parseColor(value) = Null

\* C21: for every style object applyStyle raises no exception, writes every
\* key with a defined value (the raw value where the value fails length or
\* color parsing) and returns every such key, whichever entry fails
C21_ParseFailureDegrades ==
    last.op = "applyStyle" =>
        /\ ~last.threw
        /\ \A e \in Range(EntriesOf(last.a)) :
              e[2] # Undefined =>
                  \A k \in LonghandsOf(e[1]) :
                      /\ k \in Range(last.c)
                      /\ WritesOf(last.calls, k) # {}
                      /\ FailsParsing(k, e[2]) =>
                            StyleCall(CONTAINER, k, e[2]) \in Range(last.calls)

\* applyStyle threw on the second entry after it had written the first
C21_Witness ==
    /\ last.op = "applyStyle"
    /\ last.threw
    /\ last.a = StyleLit(<< <<"paddingTop", Num(10)>>,
                            <<"color", Str(S_CONSTRUCTOR)>> >>)
    /\ last.calls = <<StyleCall(CONTAINER, "paddingTop", Length(Num(10), "Pixel"))>>

\* the string without a leading minus sign
Unsigned(s) == IF s # <<>> /\ s[1] = "-" THEN Tail(s) ELSE s

IsDigits(s) == s # <<>> /\ \A i \in DOMAIN s : IsDigit(s[i])

\* an optional minus sign, digits, and optionally a point and digits
IsNumeral(s) ==
    \/ IsDigits(Unsigned(s))
    \/ \E i \in DOMAIN Unsigned(s) :
          /\ Unsigned(s)[i] = "."
          /\ IsDigits(SubSeq(Unsigned(s), 1, i - 1))
          /\ IsDigits(SubSeq(Unsigned(s), i + 1, Len(Unsigned(s))))

\* the number a numeral denotes
NumeralValue(s) ==
    LET u == Unsigned(s)
        ds == SelectSeq(u, IsDigit)
        p == IF \E i \in DOMAIN u : u[i] = "."
             THEN Len(u) - (CHOOSE i \in DOMAIN u : u[i] = ".")
             ELSE 0
    IN  Rat((IF u = s THEN 1 ELSE -1) * digitsValue(ds), Pow10(p))

\* the string without its last k characters
DropLast(s, k) == SubSeq(s, 1, Len(s) - k)

\* C23: parseLength maps a number n to a pixel length of value n, a trimmed
\* numeral with no suffix or the suffix px to a pixel length of its value,
\* a trimmed numeral with the suffix % to a percent length of its value,
\* and auto, none and initial in any letter case to their keyword sentinels
C23_LengthAccepted ==
    last.op = "parseLength" =>
        /\ ~last.threw
        /\ (last.a.t = "number" => last.c = Length(last.a, "Pixel"))
        /\ last.a.t = "string" =>
              LET t == trim(last.a.s)
              IN  /\ IsNumeral(t) => last.c = Length(NumeralValue(t), "Pixel")
                  /\ (endsWith(t, <<"p","x">>) /\ IsNumeral(DropLast(t, 2))) =>
                        last.c = Length(NumeralValue(DropLast(t, 2)), "Pixel")
                  /\ (endsWith(t, <<"%">>) /\ IsNumeral(DropLast(t, 1))) =>
                        last.c = Length(NumeralValue(DropLast(t, 1)), "Percent")
                  /\ toLowerCase(t) = KW_AUTO => last.c = StyleKeyword("Auto")
                  /\ toLowerCase(t) = KW_NONE => last.c = StyleKeyword("None")
                  /\ toLowerCase(t) = KW_INITIAL => last.c = StyleKeyword("Initial")

\* parseLength returned a percent length with a fraction
C23_Witness ==
    /\ last.op = "parseLength"
    /\ last.a = Str(S_12_5PCT)
    /\ last.c = Length(Rat(25, 2), "Percent")

\* at most one point and at least one digit: a numeral, or a numeral with
\* the digits before or after the point left out
IsLooseNumeral(s) ==
    /\ \A i \in DOMAIN Unsigned(s) : IsDigit(Unsigned(s)[i]) \/ Unsigned(s)[i] = "."
    /\ Cardinality({i \in DOMAIN Unsigned(s) : Unsigned(s)[i] = "."}) <= 1
    /\ \E i \in DOMAIN Unsigned(s) : IsDigit(Unsigned(s)[i])

\* a trimmed, lower-cased string of the shape parseLength is said to accept
HasLengthShape(t) ==
    \/ t \in {KW_AUTO, KW_NONE, KW_INITIAL}
    \/ IsLooseNumeral(t)
    \/ endsWith(t, <<"p","x">>) /\ IsLooseNumeral(DropLast(t, 2))
    \/ endsWith(t, <<"%">>) /\ IsLooseNumeral(DropLast(t, 1))

\* C24: parseLength returns null for every string that, trimmed, is neither
\* a keyword nor an optional minus sign, digits with an optional fraction
\* and an optional suffix px or %
C24_OtherShapesFail ==
    (last.op = "parseLength" /\ last.a.t = "string") =>
        (~HasLengthShape(toLowerCase(trim(last.a.s))) => last.c = Null)

\* parseLength returned a length for a string with two decimal points
C24_Witness ==
    /\ last.op = "parseLength"
    /\ last.a = Str(S_1_2_3)
    /\ last.c = Length(Rat(6, 5), "Pixel")

\* a trimmed string that is a numeral followed by px in some letter case
\* other than px itself
HasUpperCasePx(t) ==
    /\ Len(t) > 2
    /\ IsNumeral(DropLast(t, 2))
    /\ toLowerCase(SubSeq(t, Len(t) - 1, Len(t))) = <<"p","x">>
    /\ SubSeq(t, Len(t) - 1, Len(t)) # <<"p","x">>

\* C25 as stated: a numeral whose suffix px holds an upper-case letter is not
\* accepted and parseLength returns null
C25_UpperCasePxFails ==
    (last.op = "parseLength" /\ last.a.t = "string") =>
        (HasUpperCasePx(trim(last.a.s)) => last.c = Null)

\* C25, amended: parseLength lower-cases the whole trimmed string before it
\* matches, so a numeral whose suffix is px in any letter case gives a pixel
\* length of the numeral's value, as the keywords in any letter case give
\* their sentinels
C25_SuffixAnyCase ==
    (last.op = "parseLength" /\ last.a.t = "string") =>
        /\ HasUpperCasePx(trim(last.a.s)) =>
              last.c = Length(NumeralValue(DropLast(trim(last.a.s), 2)), "Pixel")
        /\ last.c = parseLength(Str(toLowerCase(last.a.s)))

\* parseLength returned a pixel length for a numeral followed by PX
C25_Witness ==
    /\ last.op = "parseLength"
    /\ last.a = Str(S_1_5PX_UPPER)
    /\ last.c = Length(Rat(3, 2), "Pixel")

\* a value the parser returns something for
Parsable(parsed) == parsed # Null /\ ~IsThrow(parsed)

\* C22: parseStyleValue returns null and undefined unchanged; for a length
\* key the parsed length of a number or parsable string and the raw value
\* otherwise; for a color key the parsed color of a parsable string and the
\* raw value otherwise; for every other key the raw value
C22_StyleValueByClass ==
    last.op = "parseStyleValue" =>
        /\ ~last.threw
        /\ last.a \in {Undefined, Null} => last.c = last.a
        /\ (last.a \notin {Undefined, Null} /\ last.b \in LENGTH_PROPERTIES) =>
              last.c = IF last.a.t \in {"number", "string"}
                          /\ Parsable(parseLength(last.a))
                       THEN parseLength(last.a) ELSE last.a
        /\ (last.a \notin {Undefined, Null} /\ last.b \in COLOR_PROPERTIES) =>
              last.c = IF last.a.t = "string" /\ Parsable(parseColor(last.a))
                       THEN parseColor(last.a) ELSE last.a
        /\ (last.b \notin LENGTH_PROPERTIES \cup COLOR_PROPERTIES) =>
              last.c = last.a

\* parseStyleValue threw on a color key
C22_Witness ==
    /\ last.op = "parseStyleValue"
    /\ last.b = "backgroundColor"
    /\ last.a = Str(S_CONSTRUCTOR)
    /\ last.threw

IsHexDigits(s) == \A i \in DOMAIN s : s[i] \in Range(HEXDIGITS)

\* the channel two hexadecimal digits stand for
HexChannel(hi, lo) == Rat(16 * HexVal(hi) + HexVal(lo), 255)

\* the color the digits after the '#' stand for
HexColorOf(h) ==
    IF Len(h) = 3
    THEN Color(HexChannel(h[1], h[1]), HexChannel(h[2], h[2]),
               HexChannel(h[3], h[3]), Num(1))
    ELSE IF Len(h) = 4
    THEN Color(HexChannel(h[1], h[1]), HexChannel(h[2], h[2]),
               HexChannel(h[3], h[3]), HexChannel(h[4], h[4]))
    ELSE IF Len(h) = 6
    THEN Color(HexChannel(h[1], h[2]), HexChannel(h[3], h[4]),
               HexChannel(h[5], h[6]), Num(1))
    ELSE Color(HexChannel(h[1], h[2]), HexChannel(h[3], h[4]),
               HexChannel(h[5], h[6]), HexChannel(h[7], h[8]))

\* the trimmed, lower-cased input of parseColor when it starts with '#'
IsHashInput ==
    /\ last.op = "parseColor"
    /\ last.a.t = "string"
    /\ toLowerCase(trim(last.a.s)) # <<>>
    /\ toLowerCase(trim(last.a.s))[1] = "#"

\* C26: after a '#', parseColor returns null unless 3, 4, 6 or 8 characters
\* follow; 3 or 4 hexadecimal digits give the channels of each digit
\* doubled, 6 or 8 the channels of each pair, over 255, and alpha is 1 when
\* no alpha digit is given
C26_HexForms ==
    IsHashInput =>
        LET h == Tail(toLowerCase(trim(last.a.s)))
        IN  /\ Len(h) \notin {3, 4, 6, 8} => last.c = Null
            /\ (Len(h) \in {3, 4, 6, 8} /\ IsHexDigits(h)) => last.c = HexColorOf(h)

\* parseColor returned the color of four hexadecimal digits
C26_Witness ==
    /\ last.op = "parseColor"
    /\ last.a = Str(<<"#","f","f","f","8">>)
    /\ last.c = Color(Num(1), Num(1), Num(1), Rat(136, 255))

\* a trimmed, lower-cased string parseColor is said to accept: a name of the
\* table, a '#' and 3, 4, 6 or 8 hexadecimal digits, or an rgb()/rgba()
\* expression of three integers or percentages and an optional alpha
IsColorSyntax(t) ==
    \/ \E i \in DOMAIN NAMED_COLORS : NAMED_COLORS[i][1] = t
    \/ /\ t # <<>>
       /\ t[1] = "#"
       /\ Len(t) - 1 \in {3, 4, 6, 8}
       /\ IsHexDigits(Tail(t))
    \/ t \in RGB_STRINGS

\* C27: parseColor returns null, and neither throws nor returns a color, for
\* every value that is not a string and every string that is not a table
\* name, a well-formed hex color or a well-formed rgb()/rgba() expression
C27_UnknownIsNull ==
    last.op = "parseColor" =>
        ((last.a.t = "string" => ~IsColorSyntax(toLowerCase(trim(last.a.s))))
            => (~last.threw /\ last.c = Null))

\* parseColor threw on an identifier that is not in the table
C27_Witness ==
    /\ last.op = "parseColor"
    /\ last.a = Str(S_CONSTRUCTOR)
    /\ last.threw

\* a finite number within [0, 1]
InUnit(x) == ~IsNaN(x) /\ RatLeq(Num(0), x) /\ RatLeq(x, Num(1))

\* the input is the rgb()/rgba() expression of channels c with suffix suf
\* and alpha
IsRgbInput(c, suf, alpha) ==
    \E name \in RGB_NAMES, sp \in RGB_SPACINGS :
        last.a = Str(RgbString(name, sp, c, suf, alpha))

\* C28: every channel of every color parseColor returns lies in [0, 1]; an
\* integer channel above 255, a percentage above 100 and an alpha above 1
\* give 1
C28_ChannelsInUnit ==
    (last.op = "parseColor" /\ last.c.t = "Color") =>
        /\ InUnit(last.c.r) /\ InUnit(last.c.g) /\ InUnit(last.c.b) /\ InUnit(last.c.a)
        /\ \A c \in [1 .. 3 -> RGB_CHANNELS], alpha \in ALPHAS :
              IsRgbInput(c, <<>>, alpha) =>
                  /\ c[1] = <<"3","0","0">> => last.c.r = Num(1)
                  /\ c[2] = <<"3","0","0">> => last.c.g = Num(1)
                  /\ c[3] = <<"3","0","0">> => last.c.b = Num(1)
                  /\ alpha = <<"2">> => last.c.a = Num(1)
        /\ \A c \in [1 .. 3 -> PERCENT_CHANNELS], alpha \in ALPHAS :
              IsRgbInput(c, <<"%">>, alpha) =>
                  /\ c[1] = <<"1","5","0">> => last.c.r = Num(1)
                  /\ c[2] = <<"1","5","0">> => last.c.g = Num(1)
                  /\ c[3] = <<"1","5","0">> => last.c.b = Num(1)
                  /\ alpha = <<"2">> => last.c.a = Num(1)

\* parseColor returned a color with negative channels
C28_Witness ==
    /\ last.op = "parseColor"
    /\ last.a = Str(<<"#","-","f","-","f","-","f">>)
    /\ last.c = Color(Rat(-1, 17), Rat(-1, 17), Rat(-1, 17), Num(1))

\* C30: the current priority starts as the default priority, is changed by
\* setCurrentUpdatePriority alone, to the value passed, and left alone by
\* every other operation; getCurrentUpdatePriority returns it, and
\* resolveUpdatePriority returns it unless it is 0, then the default priority
C30_PriorityCell ==
    /\ currentUpdatePriority = DefaultEventPriority
    /\ [][/\ last'.op = "setCurrentUpdatePriority" =>
                currentUpdatePriority' = last'.a
          /\ last'.op # "setCurrentUpdatePriority" =>
                currentUpdatePriority' = currentUpdatePriority
          /\ last'.op = "getCurrentUpdatePriority" =>
                last'.c = currentUpdatePriority
          /\ last'.op = "resolveUpdatePriority" =>
                last'.c = IF currentUpdatePriority = 0 THEN DefaultEventPriority
                          ELSE currentUpdatePriority]_vars

\* resolveUpdatePriority returned the default priority while the current
\* priority was 0, after an instance was created and a tree rendered
C30_Witness ==
    /\ last.op = "resolveUpdatePriority"
    /\ currentUpdatePriority = 0
    /\ last.c = DefaultEventPriority
    /\ instances # <<>>
    /\ roots # <<>>

\* the native side after one native call, by the element behaviour of
\* mocks.ts
ApplyCall(nat, c) ==
    CASE c.api = "new" ->
            [elements |-> (c.node :> NewElement(c.type)) @@ nat.elements,
             listeners |-> (c.node :> EmptyBag) @@ nat.listeners]
      [] c.api = "style" ->
            [nat EXCEPT !.elements[c.node].style = Put(@, c.key, c.value)]
      [] c.api = "AddToClassList" ->
            [nat EXCEPT !.elements[c.node].classList = @ \cup {c.cls}]
      [] c.api = "RemoveFromClassList" ->
            [nat EXCEPT !.elements[c.node].classList = @ \ {c.cls}]
      [] c.api = "field" ->
            [nat EXCEPT !.elements[c.node].fields = Put(@, c.field, c.value)]
      [] c.api = "addEventListener" ->
            [nat EXCEPT !.listeners[c.node] = addEventListener(@, c.type, c.callback)]
      [] c.api = "removeEventListener" ->
            [nat EXCEPT !.listeners[c.node] = removeEventListener(@, c.type, c.callback)]
      [] c.api = "removeAllEventListeners" ->
            [nat EXCEPT !.listeners[c.node] = EmptyBag]
      [] c.api = "Add" ->
            [nat EXCEPT !.elements[c.node].children = Add(@, c.child)]
      [] c.api = "Insert" ->
            [nat EXCEPT !.elements[c.node].children = Insert(@, c.index, c.child)]
      [] c.api = "Remove" ->
            [nat EXCEPT !.elements[c.node].children = Remove(@, c.child)]
      [] c.api = "Clear" ->
            [nat EXCEPT !.elements[c.node].children = <<>>]
      [] OTHER -> nat

\* the native side after a sequence of native calls, each applied once, in
\* order
RECURSIVE Replay(_, _)
Replay(nat, calls) ==
    IF calls = <<>> THEN nat ELSE Replay(ApplyCall(nat, Head(calls)), Tail(calls))

\* the host operations the reconciler requests in SpecRender
WORK_OPS == {"createInstance", "clearContainer", "appendChildToContainer",
             "removeChildFromContainer", "commitUpdate"}

FIELD_PROPS ==
    {COMMON_PROPS[i][1] : i \in DOMAIN COMMON_PROPS}
    \cup {SCROLLVIEW_PROPS[i][1] : i \in DOMAIN SCROLLVIEW_PROPS}
    \cup {LISTVIEW_PROPS[i][1] : i \in DOMAIN LISTVIEW_PROPS}

\* C31: createInstance and commitUpdate leave every native field whose prop
\* is undefined in the props they are given as it was before the call (as
\* the factory made it, for createInstance)
C31_UndefinedPropsKeepFields ==
    [][/\ last'.op = "commitUpdate" =>
             \A f \in FIELD_PROPS :
                 Get(PROPS_TABLE[last'.c], f) = Undefined =>
                     Get(elements'[instances[last'.a].element].fields, f) =
                         Get(elements[instances[last'.a].element].fields, f)
       /\ (last'.op = "createInstance" /\ ~last'.threw) =>
             \A f \in FIELD_PROPS :
                 Get(PROPS_TABLE[last'.b], f) = Undefined =>
                     Get(elements'[last'.a].fields, f) =
                         Get(NewElement(last'.type).fields, f)
      ]_vars

\* a scroll view updated with props that define nothing keeps the mode, the
\* value and the text of the props before
C31_Witness ==
    /\ last.op = "commitUpdate"
    /\ last.b = 8
    /\ last.c = 1
    /\ instances[last.a].type = "ojs-scrollview"
    /\ Get(elements[instances[last.a].element].fields, "mode") =
          CSEnum("ScrollViewMode", Str(S_HORIZONTAL))
    /\ Get(elements[instances[last.a].element].fields, "value") = Num(5)
    /\ Get(elements[instances[last.a].element].fields, "text") = Str(S_HI)

\* the step of updateInstance a native call belongs to: 1 an unset write
\* of clearRemovedStyles, 2 a write of applyStyle, 3 the class diff, 4 the
\* event diff, 5 the type-specific properties
StepOf(call, newStyleKeys) ==
    IF call.api = "style"
    THEN IF call.key \in Range(newStyleKeys) THEN 2 ELSE 1
    ELSE IF call.api \in {"AddToClassList", "RemoveFromClassList"} THEN 3
    ELSE IF call.api \in {"addEventListener", "removeEventListener"} THEN 4
    ELSE 5

\* the native calls of one commitUpdate run through the steps in order, the
\* style steps and the class step only when their prop changed
StepsInOrder(calls, oldProps, newProps, newStyleKeys) ==
    /\ \A j, k \in DOMAIN calls :
           j < k => StepOf(calls[j], newStyleKeys) <= StepOf(calls[k], newStyleKeys)
    /\ \A j \in DOMAIN calls :
           /\ StepOf(calls[j], newStyleKeys) \in {1, 2}
                  => Get(oldProps, "style") # Get(newProps, "style")
           /\ StepOf(calls[j], newStyleKeys) = 1 => calls[j].value = Undefined
           /\ StepOf(calls[j], newStyleKeys) = 3
                  => Get(oldProps, "className") # Get(newProps, "className")

\* C32: commitUpdate issues the unset writes, then the new style writes,
\* then the class diff, then the event diff, then the type-specific
\* properties, and one that runs to its end leaves instance.props =
\* newProps; instance.type stays as it was
C32_UpdateOrder ==
    [][last'.op = "commitUpdate" =>
          /\ StepsInOrder(last'.calls, PROPS_TABLE[last'.b], PROPS_TABLE[last'.c],
                 getExpandedStyleKeys(Get(PROPS_TABLE[last'.c], "style")).keys)
          /\ ~last'.threw => instances'[last'.a].props = last'.c
          /\ instances'[last'.a].type = instances[last'.a].type
      ]_vars

\* an update that ran all five steps
C32_Witness ==
    /\ last.op = "commitUpdate" /\ ~last.threw
    /\ instances[last.a].props = last.c
    /\ \A s \in 1 .. 5 : \E j \in DOMAIN last.calls :
           StepOf(last.calls[j],
                  getExpandedStyleKeys(Get(PROPS_TABLE[last.c], "style")).keys) = s

\* C33: after creation and after every update of a sequence, the classes
\* on the native node are the escaped tokens of the current className, none
\* when it is undefined or empty
C33_ClassListIsClassName ==
    elements[CONTAINER].classList = ClassesOf(last.b)

\* a class escaped at creation, kept by one update and removed by the next,
\* which drops it
C33_Witness ==
    /\ last.op = "className"
    /\ last.a = Str(<<":", " ", "b">>)
    /\ last.b = Str(<<"b">>)
    /\ last.calls = <<ClassCall("RemoveFromClassList", CONTAINER, <<"_", "c", "_">>)>>
    /\ elements[CONTAINER].classList = {<<"b">>}

\* root id holds content: a top-level instance it has committed, or an
\* element that waits for its commit
HasContent(id) ==
    \/ reconciler.fibers[id].child # 0
    \/ /\ reconciler.fibers[id].update # <<>>
       /\ reconciler.fibers[id].update[1] # NULL_ELEMENT

\* the roots of container that hold content
ContentRoots(container) ==
    {id \in DOMAIN reconciler.fibers :
        reconciler.fibers[id].container = container /\ HasContent(id)}

\* C34: at every moment at most one reconciler root with committed or
\* pending content exists for a container
C34_OneContentRootPerContainer ==
    \A container \in CONTAINERS : Cardinality(ContentRoots(container)) <= 1

\* render after unmount, before the null-tree commit of the unmount ran: the
\* unmounted root still has its instance in the container and the new root
\* has its element pending
C34_Witness ==
    /\ last.op = "render"
    /\ \E old \in ContentRoots(CONTAINER), new \in ContentRoots(CONTAINER) :
          /\ old # new
          /\ reconciler.fibers[old].child # 0
          /\ reconciler.fibers[old].update = <<NULL_ELEMENT>>
          /\ old \in Range(reconciler.schedule)
          /\ Get(roots, CONTAINER) = Root(new)

\* the breakpoint names from the smallest to the largest
BREAKPOINT_ORDER == <<"sm", "md", "lg", "xl", "xxl">>

\* the breakpoints whose class is on the root
ActiveBreakpoints ==
    {b \in Range(BREAKPOINT_ORDER) :
        BREAKPOINT_CLASS[b] \in elements[CONTAINER].classList}

\* C35: after applyBreakpointClasses the root has, among sm, md, lg, xl and
\* 2xl, exactly the classes whose threshold is at most the width; a larger
\* active breakpoint implies every smaller one; the reported name is the
\* largest active one, 'base' when there is none
C35_BreakpointsOfWidth ==
    last.op \in {"useEffect", "viewportchange"} =>
        LET threshold == [sm |-> 640, md |-> 768, lg |-> 1024, xl |-> 1280,
                          xxl |-> 1536]
        IN  /\ ActiveBreakpoints =
                  {b \in Range(BREAKPOINT_ORDER) :
                      ~IsNaN(last.a) /\ threshold[b] * last.a.d <= last.a.n}
            /\ \A j, k \in DOMAIN BREAKPOINT_ORDER :
                  (j < k /\ BREAKPOINT_ORDER[k] \in ActiveBreakpoints)
                      => BREAKPOINT_ORDER[j] \in ActiveBreakpoints
            /\ IF ActiveBreakpoints = {} THEN last.c.breakpoint = "base"
               ELSE /\ last.c.breakpoint \in ActiveBreakpoints
                    /\ \A b \in ActiveBreakpoints :
                          threshold[b] <= threshold[last.c.breakpoint]

\* a viewport of exactly 1280 pixels after a wider one: 2xl is removed and
\* sm, md, lg and xl stay, next to the class that is not a breakpoint
C35_Witness ==
    /\ last.op = "viewportchange"
    /\ last.a = Num(1280)
    /\ last.c.breakpoint = "xl"
    /\ elements[CONTAINER].classList =
          {<<"a">>, <<"s","m">>, <<"m","d">>, <<"l","g">>, <<"x","l">>}
    /\ Len(last.calls) = 9

\* the native listeners the handlers of props ask for
HandlerListeners(props) ==
    {Listener(EVENT_PROPS[j][2], Get(props, EVENT_PROPS[j][1])) :
        j \in {k \in DOMAIN EVENT_PROPS : Truthy(Get(props, EVENT_PROPS[k][1]))}}

\* old and new props hold the same handler references
SameHandlers(oldProps, newProps) ==
    \A j \in DOMAIN EVENT_PROPS :
        Get(oldProps, EVENT_PROPS[j][1]) = Get(newProps, EVENT_PROPS[j][1])

\* C36: an instance with handlers that a removal stripped of its native
\* listeners, attached again and updated by commitUpdate with the same
\* handler references, has a native listener for every handler in its props
C36_ListenersAfterReattach ==
    [][(/\ last'.op = "commitUpdate"
        /\ ~last'.threw
        /\ instances[last'.a].element \in Range(elements[CONTAINER].children)
        /\ instances[last'.a].eventHandlers # <<>>
        /\ listeners[instances[last'.a].element] = EmptyBag
        /\ SameHandlers(PROPS_TABLE[last'.b], PROPS_TABLE[last'.c]))
       =>
        \A l \in HandlerListeners(PROPS_TABLE[last'.c]) :
            CopiesIn(l, listeners'[instances[last'.a].element]) >= 1
      ]_vars

\* an attached instance whose props and eventHandlers hold a click handler
\* and whose node has no listener after a commitUpdate
C36_Witness ==
    /\ last.op = "commitUpdate"
    /\ ~last.threw
    /\ SameHandlers(PROPS_TABLE[last.b], PROPS_TABLE[last.c])
    /\ instances[last.a].element \in Range(elements[CONTAINER].children)
    /\ Get(PROPS_TABLE[last.c], "onClick") = Fn("A")
    /\ Get(instances[last.a].eventHandlers, "click") = Fn("A")
    /\ listeners[instances[last.a].element] = EmptyBag

\* the nodes one level below the nodes of S, and S
WithChildren(S) == S \cup UNION {Range(elements[n].children) : n \in S}

\* node and its descendants; no tree of TreeInst instances is deeper than
\* the two levels taken here
SubtreeOf(node) == WithChildren(WithChildren({node}))

\* C37: after removeChild or removeChildFromContainer no native listener
\* remains on any node of the removed subtree
C37_SubtreeHasNoListeners ==
    [][last'.op \in {"removeChild", "removeChildFromContainer"} =>
          \A n \in SubtreeOf(instances[last'.b].element) :
              listeners'[n] = EmptyBag
      ]_vars

\* an instance removed from the container whose root node has lost its
\* listeners while a descendant keeps a click listener
C37_Witness ==
    /\ last.op = "removeChildFromContainer"
    /\ listeners[instances[last.b].element] = EmptyBag
    /\ instances[last.b].element \notin Range(elements[CONTAINER].children)
    /\ \E n \in SubtreeOf(instances[last.b].element) :
          CopiesIn(Listener("click", Fn("A")), listeners[n]) = 1

\* the values applyStyle writes for the style object of instance i
StyleValuesOf(i) ==
    applyStyle(<<>>, instances[i].element,
               Get(PROPS_TABLE[instances[i].props], "style")).style

\* C38: for an instance whose style object defines display, hideInstance
\* followed by unhideInstance leaves the native display equal to the value
\* written from the style object, so that every key of appliedStyleKeys
\* holds the value parsed from the current style
C38_UnhideRestoresDisplay ==
    [][(/\ last.op = "hideInstance"
        /\ last'.op = "unhideInstance"
        /\ last'.a = last.a
        /\ Get(StyleValuesOf(last.a), "display") # Undefined)
       =>
        Get(elements'[instances[last.a].element].style, "display")
            = Get(StyleValuesOf(last.a), "display")
      ]_vars

\* an instance styled with display 'flex' whose node has display '' after
\* it was hidden and shown again
C38_Witness ==
    /\ last.op = "unhideInstance"
    /\ "display" \in Range(instances[last.a].appliedStyleKeys)
    /\ Get(StyleValuesOf(last.a), "display") = Str(S_FLEX)
    /\ Get(elements[instances[last.a].element].style, "display") = Str(<<>>)

\* the flush of render(element, container) in the current state
FlushOfRender(container, element) ==
    flushSyncWork(Flushing(render(roots, reconciler, element, container).reconciler))

\* C39: when the synchronous flush render invokes throws, render logs the
\* failure and returns normally, and the container's root stays in the root
\* map
C39_FlushErrorCaught ==
    [][(/\ last'.op = "render"
        /\ last'.type # "none"
        /\ FlushOfRender(last'.a, last'.b).threw)
       =>
        /\ ~last'.threw
        /\ last'.c = "sync flush failed"
        /\ Truthy(Get(roots', last'.a))
        /\ Get(roots', last'.a) = render(roots, reconciler, last'.b, last'.a).roots[last'.a]
      ]_vars

\* a first render whose createInstance threw inside flushSyncWork: render
\* returned, the root is in the map and has no instance
C39_Witness ==
    /\ last.op = "render"
    /\ last.type = "flushSyncWork"
    /\ last.b = 6
    /\ ~last.threw
    /\ last.c = "sync flush failed"
    /\ Truthy(Get(roots, last.a))
    /\ reconciler.fibers[Get(roots, last.a).id].child = 0
    /\ instances = <<>>

====
